---- MODULE Spec2Model ----
(***************************************************************************)
(* Model of the turn-orchestration core of the banking agent orchestrator: *)
(*   - the input guardrail pipeline        (src/utils/guardrails.py,       *)
(*                                          src/utils/moderation.py)       *)
(*   - the two turn drivers                (src/utils/chat_manager.py,     *)
(*                                          src/agents_openai.py)          *)
(*   - the per-agent history limitation    (src/utils/chat_manager.py)     *)
(*   - the tool loop                       (src/utils/function_handler.py) *)
(*                                                                         *)
(* A turn is modelled in small steps: one action runs the code from the    *)
(* return of one external call (moderation service, topic classifier,      *)
(* completion service, specialist handler, agent runner) up to the next    *)
(* one; the answer of the external call is the action's input.             *)
(*                                                                         *)
(* Specifications:                                                         *)
(*   Spec          one manager serving turns one after another             *)
(*   SpecHistorico a conversation growing by the program's own appends,    *)
(*                 with _aplicar_limitacao_historico applied to it         *)
(***************************************************************************)
EXTENDS Integers, Sequences, FiniteSets, TLC

VARIABLES
    input_guardrails,  \* GuardRailsManager.input_guardrails: validator names, in order
    pc,                \* position of the turn in progress
    path,              \* "chat" (processar_mensagem) or "agents" (run_agent_loop)
    pergunta,          \* the user input of the turn
    gi,                \* 1-based index of the validator the pipeline invokes next
    all_details,       \* aplicar_guardrails_entrada: all_details
    invocados,         \* the validators invoked by the pipeline run, with what they did
    guardrail_ret,     \* what aplicar_guardrails_entrada returned: <<bloqueado, mensagem, detalhes>>
    calls,             \* the external calls and appends of the turn, in order
    mensagens,         \* processar_resposta_com_tools: the working context
    tool_calls,        \* the invocations requested by the first completion reply
    ti,                \* 1-based index of the invocation the tool loop handles next
    agentes_usados,    \* processar_resposta_com_tools: agentes_usados
    last_agent_used,   \* agents_openai._context_data['last_agent_used'] (module global)
    retorno,           \* what the turn returned: <<texto, agente>>, <<>> while it runs
    historico,         \* the conversation history handed to the turn
    contexto,          \* result of _aplicar_limitacao_historico(historico)
    limite_mensagens_por_agente,  \* HistoricoManager.limite_mensagens_por_agente
    ultima_configuracao,  \* the last call that set the limit, and the error it raised
    output_guardrails, \* GuardRailsManager.output_guardrails: validator names, in order
    arquivo,           \* chat_history/<cpf>.json of one customer: the stored list
    sessoes,           \* the runs of main for that customer, each with its own state
    contexto_relevante, \* result of obter_contexto_relevante_para_agente, as
                       \* <<agente, pergunta_atual, lista>>; <<>> when none was computed
    context_data,      \* the context dict main builds for each customer's turn
    _context_data,     \* agents_openai._context_data: the dict the global refers to
    chamadas,          \* the calls of run_agent_loop in flight, one per customer
    simulacao,         \* the last call of emprestimo_tool: its arguments and what
                       \* EmprestimoAgent.processar did with them
    conexao_disponivel, \* the flag of db.py and the copy file_utils imported
    documento,         \* the document of the customer in the database collection
    chamada_historico, \* the last salvar_historico / carregar_historico call
    analise_risco      \* the last call of AnaliseRiscoAgent.processar: its arguments
                       \* and the analysis it returned

vars == <<input_guardrails, pc, path, pergunta, gi, all_details, invocados,
          guardrail_ret, calls, mensagens, tool_calls, ti, agentes_usados,
          last_agent_used, retorno, historico, contexto,
          limite_mensagens_por_agente, ultima_configuracao, contexto_relevante,
          output_guardrails,
          arquivo, sessoes, context_data, _context_data, chamadas, simulacao,
          conexao_disponivel, documento, chamada_historico, analise_risco>>

\* the state of the database connection and of the calls that use it
bancoVars == <<conexao_disponivel, documento, chamada_historico>>

\* the state of run_agent_loop calls that run at the same time
concorrenteVars == <<context_data, _context_data, chamadas>>

\* the state of the HistoricoManager instance of the ChatManager
gerenciadorVars == <<limite_mensagens_por_agente, ultima_configuracao, contexto_relevante>>

\* the state no step of a turn touches
foraDoTurno == <<gerenciadorVars, output_guardrails, arquivo, sessoes, concorrenteVars,
                 simulacao, bancoVars, analise_risco>>

\* the state of a turn in progress
turnVars == <<pc, path, pergunta, gi, all_details, invocados, guardrail_ret,
              calls, mensagens, tool_calls, ti, agentes_usados, retorno>>

-----------------------------------------------------------------------------
(* Bounds of the model *)

MaxExtraGuardrails == 1   \* validators registered with adicionar_guardrail_entrada
MaxTools == 2             \* invocations requested by one completion reply
MaxRunnerTools == 2       \* tools the agent runner executes in one turn
MaxHist == 12             \* messages of a conversation (SpecHistorico)

-----------------------------------------------------------------------------
(* Python values *)

None == "None"

\* dict.get(key): None when the key is absent
get(d, k) == IF k \in DOMAIN d THEN d[k] ELSE None

Range(s) == {s[i] : i \in 1..Len(s)}

\* all_details[name] = entry
Put(d, k, v) == [x \in (DOMAIN d) \cup {k} |-> IF x = k THEN v ELSE d[x]]

EmptyDict == [x \in {} |-> None]

Event(op, arg) == [op |-> op, arg |-> arg]

\* a sequence written as a function, evaluated once into a tuple
Materialize(f) == f \o <<>>

-----------------------------------------------------------------------------
(* src/utils/moderation.py *)

\* what the moderation service can answer for one input
ModerationResponses ==
    { [raises |-> TRUE,  flagged |-> FALSE, categories |-> <<>>],
      [raises |-> FALSE, flagged |-> FALSE, categories |-> <<>>],
      [raises |-> FALSE, flagged |-> TRUE,  categories |-> <<"violence">>],
      [raises |-> FALSE, flagged |-> TRUE,  categories |-> <<"hate", "hate_threatening">>],
      [raises |-> FALSE, flagged |-> TRUE,  categories |-> <<"sexual">>] }

categorias_graves == <<"violence", "harassment_threatening", "hate_threatening", "sexual_minors">>

DESCRICAO_PADRAO == "conteudo inapropriado"

\* the dict `mensagens` of _gerar_mensagem_bloqueio, with .get(categoria, DESCRICAO_PADRAO)
descricao_categoria(c) ==
    CASE c = "violence"               -> "conteudo violento"
      [] c = "harassment"             -> "assedio ou intimidacao"
      [] c = "harassment_threatening" -> "ameacas"
      [] c = "hate"                   -> "discurso de odio"
      [] c = "sexual"                 -> "conteudo sexual inapropriado"
      [] c = "illicit"                -> "atividades ilegais"
      [] c = "illicit_violent"        -> "atividades ilegais violentas"
      [] c = "self_harm"              -> "conteudo relacionado a autolesao"
      [] OTHER                        -> DESCRICAO_PADRAO

\* the text of the refusal around the description
mensagem_bloqueio(descricao) == "Sua mensagem foi bloqueada por conter " \o descricao

\* the keys of the dict `mensagens`: the categories that have their own wording
COM_REDACAO ==
    {"violence", "harassment", "harassment_threatening", "hate", "sexual", "illicit",
     "illicit_violent", "self_harm"}

\* categorias_ativas: the tripped categories, in the order the service lists them
_gerar_mensagem_bloqueio(categorias_ativas) ==
    LET graves == SelectSeq(categorias_graves, LAMBDA c : c \in Range(categorias_ativas))
        descricao ==
            IF graves # <<>> THEN descricao_categoria(graves[1])
            ELSE IF categorias_ativas # <<>> THEN descricao_categoria(categorias_ativas[1])
            ELSE DESCRICAO_PADRAO
    IN  mensagem_bloqueio(descricao)

\* an except branch that blocks when the service fails, for comparison
moderar_conteudo_fecha == <<TRUE, "Servico de moderacao indisponivel", None>>

\* except branch of moderar_conteudo: what it returns when the service call fails
moderar_conteudo_except == <<FALSE, "", None>>

\* returns <<blocked, message, details>>
moderar_conteudo(response) ==
    IF response.raises THEN moderar_conteudo_except
    ELSE IF response.flagged
         THEN <<TRUE, _gerar_mensagem_bloqueio(response.categories), "model_dump">>
         ELSE <<FALSE, "", None>>

-----------------------------------------------------------------------------
(* src/utils/guardrails.py *)

GuardrailResult(passed, message, details) ==
    [passed |-> passed, message |-> message, details |-> details]

\* a result whose tripwire never fires, for comparison
tripwire_nunca(resultado) == FALSE

\* GuardrailResult.tripwire_triggered
tripwire_triggered(resultado) == ~resultado.passed

\* ModerationInputGuardrail.validate; the moderation manager swallows every
\* failure of the service, so the except branch of validate is never taken
ModerationInputGuardrail_validate(response) ==
    LET r == moderar_conteudo(response)
    IN  IF r[1]
        THEN GuardrailResult(FALSE, r[2], "moderation_details")
        ELSE GuardrailResult(TRUE, "Conteudo aprovado pela moderacao", "")

\* what can happen inside FoodContentInputGuardrail.validate: the prompt file
\* may be missing, the classifier call may raise, or it answers one token
FoodOutcomes ==
    { [prompt_exists |-> FALSE, raises |-> FALSE, resultado |-> ""],
      [prompt_exists |-> TRUE,  raises |-> TRUE,  resultado |-> ""],
      [prompt_exists |-> TRUE,  raises |-> FALSE, resultado |-> "S"],
      [prompt_exists |-> TRUE,  raises |-> FALSE, resultado |-> "N"] }

MENSAGEM_COMIDA == "Desculpe, nao posso ajudar com questoes relacionadas a comida ou alimentacao."

FoodContentInputGuardrail_validate(o) ==
    IF ~o.prompt_exists THEN GuardrailResult(TRUE, "Guardrail nao configurado", "")
    ELSE IF o.raises THEN GuardrailResult(TRUE, "Erro no guardrail - permitindo", "")
    ELSE IF o.resultado = "S"
         THEN GuardrailResult(FALSE, MENSAGEM_COMIDA, "detected_food_content")
         ELSE GuardrailResult(TRUE, "Nao detectado conteudo sobre comida", "")

\* name of the validators a caller registers with adicionar_guardrail_entrada;
\* nothing keeps two registered validators from carrying the same name
ExtraNames == {"extra"}

\* a registered validator is foreign code: it passes, trips, or raises
ExtraOutcomes ==
    { [raises |-> TRUE,  passed |-> TRUE,  message |-> ""],
      [raises |-> FALSE, passed |-> TRUE,  message |-> "ok"],
      [raises |-> FALSE, passed |-> FALSE, message |-> "bloqueado pelo validador extra"] }

\* the answers validator `name` can get from the outside for one input
Outcomes(name) ==
    CASE name = "openai_moderation" -> ModerationResponses
      [] name = "food_content"      -> FoodOutcomes
      [] OTHER                      -> ExtraOutcomes

\* guardrail.validate(user_input) escapes with an exception
validate_raises(name, o) ==
    name \notin {"openai_moderation", "food_content"} /\ o.raises

\* guardrail.validate(user_input), when it returns
validate(name, o) ==
    CASE name = "openai_moderation" -> ModerationInputGuardrail_validate(o)
      [] name = "food_content"      -> FoodContentInputGuardrail_validate(o)
      [] OTHER                      -> GuardrailResult(o.passed, o.message, "")

\* the validator failed internally: it raised, or the service behind it failed
Falhou(name, o) == o.raises

\* the entry the loop body of aplicar_guardrails_entrada writes into all_details
details_entry(name, o) ==
    IF validate_raises(name, o)
    THEN [passed |-> TRUE, message |-> "Erro no guardrail: e", details |-> ""]
    ELSE LET resultado == validate(name, o)
         IN  [passed |-> resultado.passed, message |-> resultado.message,
              details |-> resultado.details]

\* the loop body returns from the pipeline: the validator returned and tripped
loop_returns(name, o) ==
    ~validate_raises(name, o) /\ tripwire_triggered(validate(name, o))

-----------------------------------------------------------------------------
(* Messages of a conversation *)

SystemMsg(c) == [role |-> "system", content |-> c]

UserMsg(c) == [role |-> "user", content |-> c]

AssistantMsg(c, a) == [role |-> "assistant", content |-> c, agent |-> a]

-----------------------------------------------------------------------------
(* src/utils/chat_manager.py: per-agent limitation of the history *)

\* the literal `limite=5` _aplicar_limitacao_historico passes
LIMITE_POR_AGENTE == 5

\* the limit ChatManager.__init__ gives its HistoricoManager
LIMITE_INICIAL == 5

Max(S) == CHOOSE x \in S : \A y \in S : y <= x

\* Python's s[-k:] for k >= 0 (s[-0:] is the whole list)
ultimos(s, k) ==
    IF k = 0 \/ k >= Len(s) THEN s ELSE SubSeq(s, Len(s) - k + 1, Len(s))

\* the first message of the history taken as the question, for comparison
pergunta_qualquer(h, i) == <<h[1]>>

\* inner loop of _obter_ultimas_interacoes_agente: the nearest user message
\* before position i as <<message>>, <<>> when there is none (Python's None)
pergunta_anterior(h, i) ==
    LET js == {j \in 1..(i - 1) : get(h[j], "role") = "user"}
    IN  IF js = {} THEN <<>> ELSE <<h[Max(js)]>>

\* the list `interacoes`: one <<pergunta, resposta>> per answer of the agent
\* that has a user message before it, in history order
interacoes(h, agente) ==
    LET idx == SelectSeq([i \in 1..Len(h) |-> i],
                         LAMBDA i : /\ get(h[i], "role") = "assistant"
                                    /\ get(h[i], "agent") = agente
                                    /\ pergunta_anterior(h, i) # <<>>)
    IN  Materialize([k \in 1..Len(idx) |-> <<pergunta_anterior(h, idx[k])[1], h[idx[k]]>>])

\* the list without the slice interacoes[-limite:], for comparison
ultimas_interacoes_sem_corte(todas, limite) == todas

\* a slice that keeps one interaction more, for comparison
ultimas_interacoes_mais_uma(todas, limite) == ultimos(todas, limite + 1)

\* the first `limite` interactions instead of the last, for comparison
primeiras_interacoes(todas, limite) ==
    IF limite >= Len(todas) THEN todas ELSE SubSeq(todas, 1, limite)

\* the slice of `interacoes` the function keeps: interacoes[-limite:]
ultimas_interacoes(todas, limite) == ultimos(todas, limite)

\* the flat list [pergunta, resposta, pergunta, resposta, ...]
_obter_ultimas_interacoes_agente(h, agente, limite) ==
    LET ult == ultimas_interacoes(interacoes(h, agente), limite)
    IN  Materialize([k \in 1..(2 * Len(ult)) |->
            IF k % 2 = 1 THEN ult[(k + 1) \div 2][1] ELSE ult[k \div 2][2]])

\* the set `agentes_encontrados`: truthy agent tags of assistant messages
agentes_encontrados(h) ==
    {get(h[i], "agent") : i \in {j \in 1..Len(h) :
        /\ get(h[j], "role") = "assistant"
        /\ get(h[j], "agent") \notin {None, ""}}}

\* list.index(x): position of the first element equal to x
index(h, x) == CHOOSE i \in 1..Len(h) : h[i] = x /\ \A j \in 1..(i - 1) : h[j] # x

\* the sort key of _aplicar_limitacao_historico:
\* historico.index(x) if x in historico else 0
chave(h, x) == IF \E i \in 1..Len(h) : h[i] = x THEN index(h, x) ELSE 0

\* sorted(s, key=...): Python's sort is stable, so the element at position i
\* lands after the elements with a smaller key and after the earlier
\* elements with the same key
sorted(s, key) ==
    LET n == Len(s)
        rank == Materialize([i \in 1..n |->
                    Cardinality({j \in 1..n : \/ key[j] < key[i]
                                              \/ key[j] = key[i] /\ j < i}) + 1])
    IN  Materialize([p \in 1..n |-> s[CHOOSE i \in 1..n : rank[i] = p]])

\* the sorted(...) call of _aplicar_limitacao_historico
ordenar(s, h) == sorted(s, Materialize([i \in 1..Len(s) |-> chave(h, s[i])]))

\* the iteration of the for loop over the set agentes_encontrados. The order
\* of a Python set of strings is arbitrary; elements that differ never share
\* a sort key, so the sorted result does not depend on it.
RECURSIVE estender_por_agente(_, _, _)
estender_por_agente(h, agentes, acc) ==
    IF agentes = {} THEN acc
    ELSE LET a == CHOOSE x \in agentes : TRUE
         IN  estender_por_agente(h, agentes \ {a},
                 acc \o _obter_ultimas_interacoes_agente(h, a, LIMITE_POR_AGENTE))

_aplicar_limitacao_historico(h) ==
    LET mensagens_system == SelectSeq(h, LAMBDA m : get(m, "role") = "system")
        mensagens_limitadas == estender_por_agente(h, agentes_encontrados(h), mensagens_system)
    IN  ordenar(mensagens_limitadas, h)

-----------------------------------------------------------------------------
(* The conversation of one customer, as the program builds it *)

MENSAGEM_CPF == "O CPF do usuario para esta sessao e 111."

MENSAGEM_BOAS_VINDAS == "Ola, seja bem-vindo(a) ao atendimento Caixa!"

\* what a user types
Perguntas == {"oi", "quero um emprestimo"}

\* the pairs a finished turn leaves in the conversation: the user input and
\* the assistant message tagged with the agent that answered
Turnos ==
    { <<UserMsg("oi"), AssistantMsg("Emprestimo aprovado.", "emprestimo_agent")>>,
      <<UserMsg("quero um emprestimo"), AssistantMsg("Emprestimo aprovado.", "emprestimo_agent")>>,
      <<UserMsg("oi"), AssistantMsg("Nivel de risco: BAIXO.", "analise_risco_agent")>> }

\* an injection that does not look for an earlier one, for comparison
adicionar_cpf_sempre(h) == <<SystemMsg(MENSAGEM_CPF)>> \o h

\* file_utils.adicionar_cpf_ao_contexto
adicionar_cpf_ao_contexto(h) ==
    IF \E i \in 1..Len(h) : get(h[i], "role") = "system" /\ h[i].content = MENSAGEM_CPF
    THEN h
    ELSE <<SystemMsg(MENSAGEM_CPF)>> \o h

\* enviar_boas_vindas: appends the welcome (the generated one or the fallback)
enviar_boas_vindas(h) == Append(h, AssistantMsg(MENSAGEM_BOAS_VINDAS, "assistant_inicial"))

\* main: historico.extend([user, assistant]) after a turn
\* a turn that leaves only its own pair in the list, for comparison
substituir_historico(h, par) == par

estender_historico(h, par) == h \o par

-----------------------------------------------------------------------------
(* JSON values, as json.loads builds them *)

Str(x) == [t |-> "str", s |-> x, n |-> 0]

Num(x) == [t |-> "num", s |-> "", n |-> x]

Obj(f) == [t |-> "obj", f |-> f]

\* the argument texts a completion reply carries in the model
RAW_EMPRESTIMO == "{\"cpf\": \"111\", \"valor\": 1200, \"qtd_parcelas\": 6}"

RAW_SEM_PARCELAS == "{\"cpf\": \"111\", \"valor\": 1200}"

RAW_VALOR_TEXTO == "{\"cpf\": \"111\", \"valor\": \"abc\", \"qtd_parcelas\": 6}"

RAW_VALOR_ZERO == "{\"cpf\": \"111\", \"valor\": 0, \"qtd_parcelas\": 6}"

RAW_PARCELAS_ZERO == "{\"cpf\": \"111\", \"valor\": 1200, \"qtd_parcelas\": 0}"

RAW_CPF_BRANCO == "{\"cpf\": \" \", \"valor\": 1200, \"qtd_parcelas\": 6}"

RAW_VALOR_STRING == "{\"cpf\": \"111\", \"valor\": \"1200\", \"qtd_parcelas\": 6}"

RAW_TRUNCADO == "{\"cpf\": \"111\", \"valor\":"

RAW_NUMERO == "5"

RAW_CPF == "{\"cpf\": \"111\"}"

RAW_PERGUNTA == "{\"pergunta\": \"taxa de juros\"}"

RAW_PERGUNTA_BRANCA == "{\"pergunta\": \" \"}"

RAW_CPF_PERGUNTA == "{\"cpf\": \"111\", \"pergunta\": \"extrato\"}"

\* json.loads(raw): <<value>>, or <<>> when it raises JSONDecodeError
json_loads(raw) ==
    CASE raw = RAW_EMPRESTIMO ->
            <<Obj([cpf |-> Str("111"), valor |-> Num(1200), qtd_parcelas |-> Num(6)])>>
      [] raw = RAW_SEM_PARCELAS ->
            <<Obj([cpf |-> Str("111"), valor |-> Num(1200)])>>
      [] raw = RAW_VALOR_TEXTO ->
            <<Obj([cpf |-> Str("111"), valor |-> Str("abc"), qtd_parcelas |-> Num(6)])>>
      [] raw = RAW_VALOR_ZERO ->
            <<Obj([cpf |-> Str("111"), valor |-> Num(0), qtd_parcelas |-> Num(6)])>>
      [] raw = RAW_PARCELAS_ZERO ->
            <<Obj([cpf |-> Str("111"), valor |-> Num(1200), qtd_parcelas |-> Num(0)])>>
      [] raw = RAW_CPF_BRANCO ->
            <<Obj([cpf |-> Str(" "), valor |-> Num(1200), qtd_parcelas |-> Num(6)])>>
      [] raw = RAW_VALOR_STRING ->
            <<Obj([cpf |-> Str("111"), valor |-> Str("1200"), qtd_parcelas |-> Num(6)])>>
      [] raw = RAW_NUMERO -> <<Num(5)>>
      [] raw = RAW_CPF -> <<Obj([cpf |-> Str("111")])>>
      [] raw = RAW_PERGUNTA -> <<Obj([pergunta |-> Str("taxa de juros")])>>
      [] raw = RAW_PERGUNTA_BRANCA -> <<Obj([pergunta |-> Str(" ")])>>
      [] raw = RAW_CPF_PERGUNTA ->
            <<Obj([cpf |-> Str("111"), pergunta |-> Str("extrato")])>>
      [] OTHER -> <<>>

\* the (name, arguments) pairs a completion reply requests in the model
ToolCallSamples ==
    { <<"emprestimo_agent", RAW_EMPRESTIMO>>,
      <<"emprestimo_agent", RAW_SEM_PARCELAS>>,
      <<"emprestimo_agent", RAW_VALOR_TEXTO>>,
      <<"emprestimo_agent", RAW_VALOR_ZERO>>,
      <<"emprestimo_agent", RAW_PARCELAS_ZERO>>,
      <<"analise_risco_agent", RAW_CPF_BRANCO>>,
      <<"emprestimo_agent", RAW_VALOR_STRING>>,
      <<"emprestimo_agent", RAW_TRUNCADO>>,
      <<"emprestimo_agent", RAW_NUMERO>>,
      <<"analise_risco_agent", RAW_CPF>>,
      <<"web_search_agent", RAW_PERGUNTA>>,
      <<"web_search_agent", RAW_PERGUNTA_BRANCA>>,
      <<"file_search_agent", RAW_CPF_PERGUNTA>>,
      <<"fgts_agent", RAW_CPF>> }

-----------------------------------------------------------------------------
(* src/utils/function_handler.py: validation *)

\* keys of FunctionCallHandler.available_functions
available_functions ==
    {"emprestimo_agent", "analise_risco_agent", "web_search_agent", "file_search_agent"}

\* str(v).strip() is empty
str_strip_vazio(v) == v.t = "str" /\ v.s \in {"", " ", "  "}

\* float(v) and int(v): <<number>>, or <<>> when they raise ValueError/TypeError
to_number(v) ==
    CASE v.t = "num" -> <<v.n>>
      [] v.t = "str" /\ v.s = "1200" -> <<1200>>
      [] v.t = "str" /\ v.s = "6" -> <<6>>
      [] OTHER -> <<>>

\* all(k in args for k in required_keys) on a value that is not an object
\* raises TypeError: argument of type 'int' is not iterable
required_keys_raises(args) == args.t = "num"

has_required_keys(args, required_keys) ==
    args.t = "obj" /\ required_keys \subseteq DOMAIN args.f

\* a validation without the check on the installment count, for comparison
parcelas_sem_checagem(qtd_parcelas) == FALSE

\* the domain predicate on the installment count: qtd_parcelas <= 0 is refused
parcelas_invalidas(qtd_parcelas) == qtd_parcelas <= 0

validate_emprestimo(a) ==
    IF to_number(a.valor) = <<>> \/ to_number(a.qtd_parcelas) = <<>> THEN FALSE
    ELSE IF str_strip_vazio(a.cpf) THEN FALSE
    ELSE IF to_number(a.valor)[1] <= 0 THEN FALSE
    ELSE IF parcelas_invalidas(to_number(a.qtd_parcelas)[1]) THEN FALSE
    ELSE TRUE

\* _validate_arguments: "True", "False", or "raise" when an exception escapes it
_validate_arguments(function_name, args) ==
    IF function_name \notin available_functions THEN "False"
    ELSE IF required_keys_raises(args) THEN "raise"
    ELSE CASE function_name = "emprestimo_agent" ->
                 IF ~has_required_keys(args, {"cpf", "valor", "qtd_parcelas"}) THEN "False"
                 ELSE IF validate_emprestimo(args.f) THEN "True" ELSE "False"
           [] function_name = "analise_risco_agent" ->
                 IF ~has_required_keys(args, {"cpf"}) THEN "False"
                 ELSE IF str_strip_vazio(args.f.cpf) THEN "False" ELSE "True"
           [] function_name = "web_search_agent" ->
                 IF ~has_required_keys(args, {"pergunta"}) THEN "False"
                 ELSE IF str_strip_vazio(args.f.pergunta) THEN "False" ELSE "True"
           [] function_name = "file_search_agent" ->
                 IF ~has_required_keys(args, {"cpf", "pergunta"}) THEN "False"
                 ELSE IF str_strip_vazio(args.f.cpf) \/ str_strip_vazio(args.f.pergunta)
                      THEN "False" ELSE "True"

-----------------------------------------------------------------------------
(* src/agentes: the specialist handlers *)

\* the user base handed to the handlers
usuarios_db ==
    [cpf \in {"111", "222"} |->
        IF cpf = "111" THEN [nome |-> "Ana", nome_sujo |-> FALSE]
        ELSE [nome |-> "Beto", nome_sujo |-> TRUE]]

Retorna(resultado) == <<"return", resultado>>

Levanta(descricao) == <<"raise", descricao>>

\* the refusal of a restricted customer: it names the ceiling of R$500,00
MENSAGEM_RECUSA_TETO ==
    "Emprestimo recusado: valor acima do permitido para clientes com restricoes (maximo R$500,00)."

\* the installment cut to whole cents instead of rounded, for comparison
parcela_truncada(valor, qtd_parcelas) == (100 * valor) \div qtd_parcelas

\* round(valor / qtd_parcelas, 2), in cents, for an amount in whole reais; the
\* quotient is never half-way between two cents when qtd_parcelas < 8
valor_parcela_centavos(valor, qtd_parcelas) ==
    (2 * 100 * valor + qtd_parcelas) \div (2 * qtd_parcelas)

\* EmprestimoAgent.processar on the arguments as parsed (they are not coerced)
EmprestimoAgent_processar(cpf, valor, qtd_parcelas) ==
    IF ~(cpf.t = "str" /\ cpf.s \in DOMAIN usuarios_db)
    THEN Retorna([aprovado |-> FALSE, mensagem |-> "CPF nao encontrado na base.",
                  valor_simulado |-> <<>>])
    ELSE LET usuario == usuarios_db[cpf.s]
         IN IF usuario.nome_sujo /\ valor.t # "num"
            THEN Levanta("'>' not supported between instances of 'str' and 'int'")
            ELSE IF usuario.nome_sujo /\ valor.n > 500
            THEN Retorna([aprovado |-> FALSE,
                          mensagem |-> MENSAGEM_RECUSA_TETO,
                          valor_simulado |-> <<>>])
            ELSE IF valor.t # "num" \/ qtd_parcelas.t # "num"
            THEN Levanta("unsupported operand type(s) for /: 'str' and 'int'")
            ELSE IF qtd_parcelas.n = 0
            THEN Levanta("division by zero")
            ELSE Retorna([aprovado |-> TRUE, mensagem |-> "Emprestimo aprovado.",
                          valor_simulado |->
                              <<[valor_total |-> valor.n,
                                 qtd_parcelas |-> qtd_parcelas.n,
                                 valor_parcela |->
                                     valor_parcela_centavos(valor.n, qtd_parcelas.n)]>>])

\* AnaliseRiscoAgent.processar, basic profile
AnaliseRiscoAgent_processar(cpf) ==
    IF ~(cpf.t = "str" /\ cpf.s \in DOMAIN usuarios_db)
    THEN Retorna([erro |-> TRUE,
                  mensagem |-> "CPF nao encontrado na base para analise de risco.",
                  analise |-> <<>>])
    ELSE LET nome_sujo == usuarios_db[cpf.s].nome_sujo
             score_risco == IF nome_sujo THEN 40 ELSE -10
             nivel_risco == IF score_risco >= 50 THEN "ALTO"
                            ELSE IF score_risco >= 20 THEN "MEDIO" ELSE "BAIXO"
         IN Retorna([erro |-> FALSE,
                     mensagem |-> "Nivel de Risco: " \o nivel_risco,
                     analise |-> <<[nivel_risco |-> nivel_risco,
                                    score_risco |-> IF score_risco < 0 THEN 0 ELSE score_risco]>>])

\* WebSearchAgent.processar: it calls the search completion itself and turns a
\* failure of that call into an error result
WebSearchAgent_processar(consulta, externo) ==
    IF externo = "ok"
    THEN Retorna([erro |-> FALSE, pergunta_original |-> consulta.s,
                  resultado |-> "resultado da busca", mensagem |-> "Resultado da busca web"])
    ELSE Retorna([erro |-> TRUE, pergunta_original |-> consulta.s,
                  resultado |-> None,
                  mensagem |-> "Nao foi possivel realizar a busca web. Erro: servico indisponivel"])

\* FileSearchAgent.processar: the transaction file of the cpf exists or not
FileSearchAgent_processar(cpf, consulta, externo) ==
    IF externo = "ok"
    THEN Retorna([erro |-> FALSE, cpf |-> cpf.s, pergunta_original |-> consulta.s,
                  resultado |-> "analise das transacoes",
                  mensagem |-> "Historico de transacoes"])
    ELSE Retorna([erro |-> TRUE, cpf |-> cpf.s, resultado |-> None,
                  mensagem |-> "Nao foi encontrado historico de transacoes para o CPF."])

\* what the world answers to a handler that asks it something
Externos(function_name) ==
    IF function_name \in {"web_search_agent", "file_search_agent"}
    THEN {"ok", "falha"} ELSE {"ok"}

\* self.available_functions[function_name](args, ...)
chamar_handler(function_name, args, externo) ==
    CASE function_name = "emprestimo_agent" ->
            EmprestimoAgent_processar(args.f.cpf, args.f.valor, args.f.qtd_parcelas)
      [] function_name = "analise_risco_agent" -> AnaliseRiscoAgent_processar(args.f.cpf)
      [] function_name = "web_search_agent" ->
            WebSearchAgent_processar(args.f.pergunta, externo)
      [] function_name = "file_search_agent" ->
            FileSearchAgent_processar(args.f.cpf, args.f.pergunta, externo)

-----------------------------------------------------------------------------
(* src/utils/function_handler.py: _execute_function *)

erro_estruturado(mensagem) == [erro |-> TRUE, mensagem |-> mensagem]

\* a handler that lets every exception through, for comparison
except_nenhuma(descricao) == FALSE

\* except Exception as e: every exception a handler or the validation raises
except_Exception(descricao) == TRUE

\* the guard in front of the handlers
argumentos_validos(function_name, args) == _validate_arguments(function_name, args)

\* the handler runs: validation accepted and the name is registered
handler_invocado(function_name, args) ==
    /\ argumentos_validos(function_name, args) = "True"
    /\ function_name \in available_functions

\* what happens inside the try block of _execute_function
corpo_execute_function(function_name, args, externo) ==
    LET v == argumentos_validos(function_name, args)
    IN IF v = "raise" THEN Levanta("argument of type 'int' is not iterable")
       ELSE IF v = "False"
       THEN Retorna(erro_estruturado("Argumentos invalidos para " \o function_name))
       ELSE IF function_name \in available_functions
       THEN chamar_handler(function_name, args, externo)
       ELSE Retorna(erro_estruturado("Funcao " \o function_name \o " nao encontrada"))

\* _execute_function: Retorna(resultado), or Levanta when an exception gets out
_execute_function(function_name, args, externo) ==
    LET r == corpo_execute_function(function_name, args, externo)
    IN IF r[1] = "raise" /\ except_Exception(r[2])
       THEN Retorna(erro_estruturado(
                "Erro interno ao executar " \o function_name \o ": " \o r[2]))
       ELSE r

-----------------------------------------------------------------------------
(* Initial values of the turn state; SpecHistorico leaves them alone *)

\* ChatManager.__init__: HistoricoManager(limite_mensagens_por_agente=5)
GerenciadorNovo ==
    /\ limite_mensagens_por_agente = LIMITE_INICIAL
    /\ ultima_configuracao = [novo_limite |-> LIMITE_INICIAL, erro |-> ""]
    /\ contexto_relevante = <<>>

\* the runs of main for one customer identifier
Sessoes == {"A", "B"}

\* a run of main that has not loaded the history yet, after `turnos` turns of
\* the earlier runs in its place. passo is the position in main, hist the
\* local list `historico`, ret what the turn in progress returned as
\* <<pergunta, resposta_texto, agente_usado>>, salvo the list of its last
\* salvar_historico call
SessaoFora(turnos) ==
    [passo |-> "fora", hist |-> <<>>, ret |-> <<>>, salvo |-> <<>>, turnos |-> turnos]

\* the rest of the process as it is constructed:
\* GuardRailsManager.__init__ sets output_guardrails = []
\* the customers whose turns run at the same time
Clientes == {"111", "222"}

\* the empty dict the module global is bound to when the module is loaded
DICT_INICIAL == "inicial"

\* a customer whose call of run_agent_loop has not started
ChamadaFora == [passo |-> "fora", ferramenta |-> "", leu |-> "", agent_used |-> ""]

\* no call of emprestimo_tool was made yet
SemSimulacao ==
    [passo |-> "fora", cpf |-> "", valor |-> 0, qtd_parcelas |-> 0, resultado |-> <<>>]

\* no call of AnaliseRiscoAgent.processar was made yet; historico_chat is <<>>
\* for None and <<h>> for the list h, resultado is <<r>> once r was returned
SemAnalise == [passo |-> "fora", cpf |-> "", historico_chat |-> <<>>, resultado |-> <<>>]

\* no call of salvar_historico or carregar_historico was made yet; salvo is
\* <<h>> once h was saved and ret is <<h>> when the load returned h
SemChamada == [op |-> "nenhuma", salvo |-> <<>>, ret |-> <<>>]

\* db.py is imported: inicializar_conexao() runs at module level and sets the
\* flag, and `from db import conexao_disponivel` copies it into file_utils
BancoNoImport(no_ar) ==
    /\ conexao_disponivel = [db |-> no_ar, file_utils |-> no_ar]
    /\ documento = <<>>
    /\ chamada_historico = SemChamada

ProcessoSemBanco ==
    /\ GerenciadorNovo
    /\ output_guardrails = <<>>
    /\ arquivo = <<>>
    /\ sessoes = [s \in Sessoes |-> SessaoFora(0)]
    /\ context_data = [c \in Clientes |-> [last_agent_used |-> ""]]
    /\ _context_data = DICT_INICIAL
    /\ chamadas = [c \in Clientes |-> ChamadaFora]
    /\ simulacao = SemSimulacao
    /\ analise_risco = SemAnalise

\* a process whose database was not reachable when db.py was imported
ProcessoNovo ==
    /\ ProcessoSemBanco
    /\ BancoNoImport(FALSE)

\* the state no step of the conversation touches
foraDaConversa == <<turnVars, input_guardrails, last_agent_used, output_guardrails,
                    arquivo, sessoes, concorrenteVars, simulacao, bancoVars, analise_risco>>

TurnIdle ==
    /\ pc = "idle"
    /\ pergunta = ""
    /\ gi = 0
    /\ all_details = EmptyDict
    /\ invocados = <<>>
    /\ guardrail_ret = <<>>
    /\ calls = <<>>
    /\ mensagens = <<>>
    /\ tool_calls = <<>>
    /\ ti = 0
    /\ agentes_usados = <<>>
    /\ retorno = <<>>

-----------------------------------------------------------------------------
(* SpecHistorico: a conversation grows; the limitation is applied to it *)

InitHistorico ==
    /\ TurnIdle
    /\ path = "chat"
    /\ input_guardrails = <<"openai_moderation", "food_content">>
    /\ last_agent_used = ""
    /\ historico = <<>>
    /\ contexto = <<>>
    /\ ProcessoNovo

\* main, first session of a customer: identity message, then the welcome
SessaoNova ==
    /\ historico = <<>>
    /\ historico' = enviar_boas_vindas(<<SystemMsg(MENSAGEM_CPF)>>)
    /\ contexto' = <<>>

\* ChatManager.preparar_historico_para_sessao
PrepararHistorico ==
    /\ Len(historico) < MaxHist
    /\ adicionar_cpf_ao_contexto(historico) # historico
    /\ historico' = adicionar_cpf_ao_contexto(historico)
    /\ contexto' = <<>>

\* ChatManager.enviar_boas_vindas(nome, historico)
BoasVindas ==
    /\ Len(historico) < MaxHist
    /\ historico' = enviar_boas_vindas(historico)
    /\ contexto' = <<>>

\* the driver appends the pair of a finished turn
AnexarTurno ==
    /\ Len(historico) + 2 <= MaxHist
    /\ \E par \in Turnos : historico' = estender_historico(historico, par)
    /\ contexto' = <<>>

\* processar_mensagem builds the bounded context of the next turn;
\* contexto holds the result as <<result>>, <<>> when none was computed
AplicarLimitacao ==
    /\ contexto = <<>>
    /\ contexto' = <<_aplicar_limitacao_historico(historico)>>
    /\ UNCHANGED historico

NextHistorico ==
    \/ SessaoNova /\ UNCHANGED <<foraDaConversa, gerenciadorVars>>
    \/ PrepararHistorico /\ UNCHANGED <<foraDaConversa, gerenciadorVars>>
    \/ BoasVindas /\ UNCHANGED <<foraDaConversa, gerenciadorVars>>
    \/ AnexarTurno /\ UNCHANGED <<foraDaConversa, gerenciadorVars>>
    \/ AplicarLimitacao /\ UNCHANGED <<foraDaConversa, gerenciadorVars>>

SpecHistorico == InitHistorico /\ [][NextHistorico]_vars

-----------------------------------------------------------------------------
(* Properties of the bounded context (SpecHistorico) *)

\* a bounded context has been computed for the current conversation
Aplicado == contexto # <<>>

\* positions of the assistant messages of h tagged a
PosicoesDe(h, a) ==
    {i \in 1..Len(h) : get(h[i], "role") = "assistant" /\ get(h[i], "agent") = a}

\* the last k of them
UltimasPosicoes(h, a, k) ==
    {i \in PosicoesDe(h, a) : Cardinality({j \in PosicoesDe(h, a) : j > i}) < k}

\* position i has a user message before it
TemPerguntaAntes(h, i) == \E j \in 1..(i - 1) : get(h[j], "role") = "user"

\* the nearest user message before position i is part of ctx
AcompanhadaDaPergunta(h, ctx, i) ==
    \E j \in 1..(i - 1) :
        /\ get(h[j], "role") = "user"
        /\ \A l \in (j + 1)..(i - 1) : get(h[l], "role") # "user"
        /\ \E c \in 1..Len(ctx) : ctx[c] = h[j]

\* ctx holds exactly k assistant messages tagged a, they are the last k of h
\* (as a multiset), and each comes with its nearest preceding user message
JanelaExata(h, ctx, a, k) ==
    LET pos == PosicoesDe(ctx, a)
        ult == UltimasPosicoes(h, a, k)
    IN  /\ Cardinality(pos) = k
        /\ \A i \in ult :
              Cardinality({c \in pos : ctx[c] = h[i]}) = Cardinality({j \in ult : h[j] = h[i]})
        /\ \A c \in pos : \E i \in ult : h[i] = ctx[c]
        /\ \A i \in ult : AcompanhadaDaPergunta(h, ctx, i)

\* C4 as stated: every agent tag with more than K tagged assistant messages
\* keeps exactly K of them in the bounded context (the last K), each with the
\* nearest user message before it.
C4_JanelaQualquerHistorico ==
    Aplicado =>
        \A a \in agentes_encontrados(historico) :
            Cardinality(PosicoesDe(historico, a)) > LIMITE_POR_AGENTE
                => JanelaExata(historico, contexto[1], a, LIMITE_POR_AGENTE)

\* C4 amended: the window is exact for every agent tag with more than K tagged
\* assistant messages whose last K each have a user message somewhere before
\* them in the history.
C4_JanelaComPergunta ==
    Aplicado =>
        \A a \in agentes_encontrados(historico) :
            ( /\ Cardinality(PosicoesDe(historico, a)) > LIMITE_POR_AGENTE
              /\ \A i \in UltimasPosicoes(historico, a, LIMITE_POR_AGENTE) :
                    TemPerguntaAntes(historico, i) )
                => JanelaExata(historico, contexto[1], a, LIMITE_POR_AGENTE)

\* C4 witness: a context was built for a history where one tag has more than
\* K answers, the last K with a question before them, and an earlier one was cut
C4_Witness ==
    /\ Aplicado
    /\ \E a \in agentes_encontrados(historico) :
          /\ Cardinality(PosicoesDe(historico, a)) > LIMITE_POR_AGENTE
          /\ \A i \in UltimasPosicoes(historico, a, LIMITE_POR_AGENTE) :
                TemPerguntaAntes(historico, i)
          /\ Cardinality(PosicoesDe(contexto[1], a)) = LIMITE_POR_AGENTE

\* a is b with some elements left out: same relative order, no element twice
RECURSIVE IsSubseq(_, _)
IsSubseq(a, b) ==
    IF a = <<>> THEN TRUE
    ELSE IF b = <<>> THEN FALSE
    ELSE IF Head(a) = Head(b) THEN IsSubseq(Tail(a), Tail(b))
    ELSE IsSubseq(a, Tail(b))

\* C5 as stated: the bounded context is a subsequence of the history (each
\* history message at most once, in the original relative order).
C5_Subsequencia == Aplicado => IsSubseq(contexto[1], historico)

-----------------------------------------------------------------------------
(* Spec: one turn after another, through either driver *)

MENSAGEM_ERRO_CHAT == "Desculpe, ocorreu um erro. Tente novamente."

MENSAGEM_ERRO_INTERNO == "Desculpe, ocorreu um erro interno. Tente novamente."

MENSAGEM_ERRO_PARSE == "Erro ao processar argumentos da funcao"

PROMPT_BASE == "prompt base"

HISTORICO_ANTERIOR ==
    <<SystemMsg(MENSAGEM_CPF), UserMsg("oi"),
      AssistantMsg("Emprestimo aprovado.", "emprestimo_agent")>>

\* main: input("Voce: ").strip() when the user types nothing or only blanks
ENTRADA_VAZIA == ""

\* what a caller hands to a turn: <<message, stored history>>
Entradas ==
    { <<"oi", <<>>>>, <<"quero um emprestimo", HISTORICO_ANTERIOR>>, <<ENTRADA_VAZIA, <<>>>> }

CallId(i) == "call_" \o ToString(i)

\* the tool_calls list of a completion reply: names and raw arguments come
\* from the service, ids are unique per reply
ToolCallLists ==
    UNION { { [i \in 1..n |-> [id |-> CallId(i), name |-> f[i][1], arguments |-> f[i][2]]]
              : f \in [1..n -> ToolCallSamples] } : n \in 1..MaxTools }

\* the tools the triage agent can reach through the runner
RunnerTools ==
    {"emprestimo_agent", "analise_risco_agent", "web_search_agent", "file_search_agent"}

\* a wrapper that never reports a block, for comparison
aplicar_guardrails_sem_bloqueio(ret) == <<FALSE, ret[2]>>

\* GuardRailsManager.aplicar_guardrails: the pipeline's answer without details
aplicar_guardrails(ret) == <<ret[1], ret[2]>>

\* the loop over the tool calls stops after the first one, for comparison
fim_apos_primeiro(i, tcs) == TRUE

\* `for tool_call in resposta_message.tool_calls` is exhausted after call i
fim_do_loop(i, tcs) == i = Len(tcs)

\* a process serves its turns through one driver: ChatManager ("chat") or the
\* agents module that main imports ("agents")
Init ==
    /\ TurnIdle
    /\ path \in {"chat", "agents"}
    /\ input_guardrails = <<"openai_moderation", "food_content">>
    /\ last_agent_used = ""
    /\ historico = <<>>
    /\ contexto = <<>>
    /\ ProcessoNovo

\* a registration that puts the validator in front, for comparison
registrar_na_frente(lista, name) == <<name>> \o lista

\* self.input_guardrails.append(guardrail)
registrar(lista, name) == Append(lista, name)

\* GuardRailsManager.adicionar_guardrail_entrada, between turns
adicionar_guardrail_entrada(name) ==
    /\ pc \in {"idle", "returned", "persisted"}
    /\ Len(input_guardrails) < 2 + MaxExtraGuardrails
    /\ input_guardrails' = registrar(input_guardrails, name)
    /\ UNCHANGED <<turnVars, last_agent_used, historico, contexto>>

\* entry of processar_mensagem ("chat") or run_agent_loop ("agents"): the
\* driver calls aplicar_guardrails, which enters the validator loop
IniciarTurno(caminho, entrada) ==
    /\ pc \in {"idle", "returned", "persisted"}
    /\ path = caminho
    /\ pc' = "guardrails"
    /\ path' = path
    /\ pergunta' = entrada[1]
    /\ historico' = entrada[2]
    /\ contexto' = <<>>
    /\ gi' = 1
    /\ all_details' = EmptyDict
    /\ invocados' = <<>>
    /\ guardrail_ret' = <<>>
    /\ calls' = <<>>
    /\ mensagens' = <<>>
    /\ tool_calls' = <<>>
    /\ ti' = 0
    /\ agentes_usados' = <<>>
    /\ retorno' = <<>>
    /\ UNCHANGED <<input_guardrails, last_agent_used>>

processar_mensagem == \E entrada \in Entradas : IniciarTurno("chat", entrada)

run_agent_loop == \E entrada \in Entradas : IniciarTurno("agents", entrada)

\* one iteration of `for guardrail in self.input_guardrails`
ValidarProximo ==
    /\ pc = "guardrails"
    /\ LET name == input_guardrails[gi]
       IN \E o \in Outcomes(name) :
            LET entry == details_entry(name, o)
                novos == Put(all_details, name, entry)
                para  == loop_returns(name, o)
                fim   == para \/ gi = Len(input_guardrails)
            IN /\ invocados' = Append(invocados,
                                 [name |-> name, raised |-> validate_raises(name, o),
                                  falhou |-> Falhou(name, o),
                                  passed |-> entry.passed, message |-> entry.message,
                                  categorias |-> IF name = "openai_moderation"
                                                 THEN o.categories ELSE <<>>])
               /\ all_details' = novos
               /\ gi' = IF fim THEN gi ELSE gi + 1
               /\ guardrail_ret' = IF para THEN <<TRUE, entry.message, novos>>
                                   ELSE IF fim THEN <<FALSE, "", novos>>
                                   ELSE <<>>
               /\ calls' = Append(calls, Event("validate", name)) \o
                           (IF fim THEN <<Event("aplicar_guardrails",
                                                IF para THEN "bloqueado" ELSE "liberado")>>
                            ELSE <<>>)
               /\ pc' = IF fim THEN "gate" ELSE "guardrails"
    /\ UNCHANGED <<path, pergunta, mensagens, tool_calls, ti, agentes_usados, retorno,
                   input_guardrails, last_agent_used, historico, contexto>>

\* `if bloqueado: return mensagem_erro, "guardrail"` in both drivers
RetornarBloqueio ==
    /\ pc = "gate"
    /\ aplicar_guardrails(guardrail_ret)[1]
    /\ retorno' = <<aplicar_guardrails(guardrail_ret)[2], "guardrail">>
    /\ pc' = "returned"
    /\ UNCHANGED <<path, pergunta, gi, all_details, invocados, guardrail_ret, calls,
                   mensagens, tool_calls, ti, agentes_usados,
                   input_guardrails, last_agent_used, historico, contexto>>

\* the context without the append of the user input, for comparison
montar_sem_pergunta(prompt_base, historico_limitado, consulta) ==
    <<SystemMsg(prompt_base)>> \o historico_limitado

\* processar_mensagem, the list `mensagens`: the prompt, the bounded history,
\* the user input
montar_mensagens(prompt_base, historico_limitado, consulta) ==
    <<SystemMsg(prompt_base)>> \o historico_limitado \o <<UserMsg(consulta)>>

\* processar_mensagem after a not-blocked pipeline: load the prompt, bound the
\* history, build the context, and place the first completion call
PrepararContexto ==
    /\ pc = "gate"
    /\ path = "chat"
    /\ ~aplicar_guardrails(guardrail_ret)[1]
    /\ all_details' = EmptyDict
    /\ invocados' = <<>>
    /\ guardrail_ret' = aplicar_guardrails(guardrail_ret)
    /\ \E prompt_ok \in BOOLEAN :
         IF prompt_ok
         THEN /\ contexto' = <<_aplicar_limitacao_historico(historico)>>
              /\ mensagens' = montar_mensagens(PROMPT_BASE,
                                                _aplicar_limitacao_historico(historico),
                                                pergunta)
              /\ calls' = Append(calls, Event("completion", "com_tools"))
              /\ pc' = "completion1"
              /\ UNCHANGED retorno
         ELSE /\ retorno' = <<MENSAGEM_ERRO_CHAT, "assistant_erro">>
              /\ pc' = "returned"
              /\ UNCHANGED <<contexto, mensagens, calls>>
    /\ UNCHANGED <<path, pergunta, gi, tool_calls, ti, agentes_usados,
                   input_guardrails, last_agent_used, historico>>

\* the start of the runner without the reset of the tag, for comparison
ChamarRunnerSemReset ==
    /\ pc = "gate"
    /\ path = "agents"
    /\ ~aplicar_guardrails(guardrail_ret)[1]
    /\ all_details' = EmptyDict
    /\ invocados' = <<>>
    /\ guardrail_ret' = aplicar_guardrails(guardrail_ret)
    /\ calls' = Append(calls, Event("runner", "triage_agent"))
    /\ pc' = "runner"
    /\ UNCHANGED <<path, pergunta, gi, mensagens, tool_calls, ti, agentes_usados, retorno,
                   input_guardrails, historico, contexto, last_agent_used>>

\* run_agent_loop after a not-blocked pipeline: reset the global tag and hand
\* the message to the runner
ChamarRunner ==
    /\ pc = "gate"
    /\ path = "agents"
    /\ ~aplicar_guardrails(guardrail_ret)[1]
    /\ all_details' = EmptyDict
    /\ invocados' = <<>>
    /\ guardrail_ret' = aplicar_guardrails(guardrail_ret)
    /\ last_agent_used' = "triage_agent"
    /\ calls' = Append(calls, Event("runner", "triage_agent"))
    /\ pc' = "runner"
    /\ UNCHANGED <<path, pergunta, gi, mensagens, tool_calls, ti, agentes_usados, retorno,
                   input_guardrails, historico, contexto>>

\* a function tool runs inside the runner and records itself in the global
RunnerTool ==
    /\ pc = "runner"
    /\ Len(SelectSeq(calls, LAMBDA e : e.op = "handler")) < MaxRunnerTools
    /\ \E tool \in RunnerTools :
         /\ last_agent_used' = tool
         /\ calls' = Append(calls, Event("handler", tool))
    /\ UNCHANGED <<pc, path, pergunta, gi, all_details, invocados, guardrail_ret,
                   mensagens, tool_calls, ti, agentes_usados, retorno,
                   input_guardrails, historico, contexto>>

\* Runner.run_sync returns or raises
RunnerRetorna ==
    /\ pc = "runner"
    /\ \E ok \in BOOLEAN :
         /\ retorno' = IF ok THEN <<"Resposta do agente.", last_agent_used>>
                       ELSE <<MENSAGEM_ERRO_INTERNO, "assistant_erro">>
         /\ calls' = Append(calls, Event("runner_retorna", IF ok THEN "ok" ELSE "raise"))
    /\ pc' = "returned"
    /\ UNCHANGED <<path, pergunta, gi, all_details, invocados, guardrail_ret,
                   mensagens, tool_calls, ti, agentes_usados,
                   input_guardrails, last_agent_used, historico, contexto>>

-----------------------------------------------------------------------------
(* src/utils/function_handler.py: processar_resposta_com_tools *)

ToolMsg(tool_call, resultado) ==
    [tool_call_id |-> tool_call.id, role |-> "tool", name |-> tool_call.name,
     content |-> resultado]

\* a loop body without the inner except clause, for comparison
sem_except_JSONDecodeError(tool_call) == Levanta("JSONDecodeError")

\* except json.JSONDecodeError: the fixed payload that becomes the tool message
except_JSONDecodeError(tool_call) == Retorna(erro_estruturado(MENSAGEM_ERRO_PARSE))

\* the last name instead of the first, for comparison
agente_ultimo(usados) ==
    IF usados # <<>> THEN usados[Len(usados)] ELSE "assistant_geral"

\* agente_principal = agentes_usados[0] if agentes_usados else "assistant_geral"
agente_principal(usados) ==
    IF usados # <<>> THEN usados[1] ELSE "assistant_geral"

\* the body of the try inside the loop, for one tool call
processar_tool_call(tool_call, externo) ==
    LET parsed == json_loads(tool_call.arguments)
    IN IF parsed = <<>> THEN except_JSONDecodeError(tool_call)
       ELSE _execute_function(tool_call.name, parsed[1], externo)

\* the handler of this tool call gets to run
tool_call_invoca_handler(tool_call) ==
    LET parsed == json_loads(tool_call.arguments)
    IN parsed # <<>> /\ handler_invocado(tool_call.name, parsed[1])

\* a protocol without the top-level except clause, for comparison
sem_except_externo(descricao) == Levanta(descricao)

\* the top-level `except Exception` of processar_resposta_com_tools
except_externo(descricao) == Retorna(<<MENSAGEM_ERRO_INTERNO, "assistant_erro">>)

\* processar_mensagem hands on what processar_resposta_com_tools returned; an
\* exception that reached it ends in its own except clause
processar_mensagem_retorno(r) ==
    IF r[1] = "raise" THEN <<MENSAGEM_ERRO_CHAT, "assistant_erro">> ELSE r[2]

\* a reply without tool calls tagged as an error, for comparison
resposta_sem_tools_erro(content) == Retorna(<<content, "assistant_erro">>)

\* `return resposta_texto, "assistant_geral"`: the reply had no tool calls
resposta_sem_tools(content) == Retorna(<<content, "assistant_geral">>)

\* the text of a first reply that asks for no tool
RespostasDiretas == {"Posso ajudar com emprestimos.", "Ola!"}

\* a web handler that asks the search model twice, for comparison
chamadas_do_handler_dobro(function_name) ==
    IF function_name = "web_search_agent"
    THEN <<Event("completion", "search"), Event("completion", "search")>> ELSE <<>>

\* the calls to the completion service a handler makes on its own: the web
\* search handler asks the search model once
chamadas_do_handler(function_name) ==
    IF function_name = "web_search_agent"
    THEN <<Event("completion", "search")>> ELSE <<>>

\* the first completion call returns: it raised, answered in text, or asked
\* for tool calls
PrimeiraResposta ==
    /\ pc = "completion1"
    /\ \/ /\ retorno' = processar_mensagem_retorno(except_externo("completion"))
          /\ calls' = Append(calls, Event("primeira_resposta", "raise"))
          /\ pc' = "returned"
          /\ UNCHANGED <<mensagens, tool_calls, ti>>
       \/ \E content \in RespostasDiretas :
            /\ retorno' = processar_mensagem_retorno(resposta_sem_tools(content))
            /\ calls' = calls \o <<Event("primeira_resposta", "texto"),
                                   Event("conteudo", content)>>
            /\ pc' = "returned"
            /\ UNCHANGED <<mensagens, tool_calls, ti>>
       \/ \E tcs \in ToolCallLists :
            /\ tool_calls' = tcs
            /\ mensagens' = Append(mensagens,
                               [role |-> "assistant", content |-> None, tool_calls |-> tcs])
            /\ calls' = Append(calls, Event("primeira_resposta", "tool_calls"))
            /\ ti' = 1
            /\ pc' = "tools"
            /\ UNCHANGED retorno
    /\ UNCHANGED <<path, pergunta, gi, all_details, invocados, guardrail_ret,
                   agentes_usados, input_guardrails, last_agent_used, historico, contexto>>

\* one iteration of `for tool_call in resposta_message.tool_calls`; leaving
\* the loop places the second completion call, without tools
ProcessarToolCall ==
    /\ pc = "tools"
    /\ LET tool_call == tool_calls[ti]
           invoca == tool_call_invoca_handler(tool_call)
           ultimo == fim_do_loop(ti, tool_calls)
       IN \E externo \in Externos(tool_call.name) :
            LET r == processar_tool_call(tool_call, externo)
                eventos == (IF invoca THEN <<Event("handler", tool_call.id)>> ELSE <<>>)
                           \o (IF invoca THEN chamadas_do_handler(tool_call.name)
                               ELSE <<>>)
            IN /\ agentes_usados' = Append(agentes_usados, tool_call.name)
               /\ IF r[1] = "raise"
                  THEN /\ calls' = calls \o eventos
                       /\ retorno' = processar_mensagem_retorno(except_externo(r[2]))
                       /\ pc' = "returned"
                       /\ UNCHANGED <<mensagens, ti>>
                  ELSE /\ mensagens' = Append(mensagens, ToolMsg(tool_call, r[2]))
                       /\ calls' = calls \o eventos
                                   \o <<Event("tool_message", tool_call.id)>>
                                   \o (IF ultimo THEN <<Event("completion", "sem_tools")>>
                                       ELSE <<>>)
                       /\ ti' = ti + 1
                       /\ pc' = IF ultimo THEN "completion2" ELSE "tools"
                       /\ UNCHANGED retorno
    /\ UNCHANGED <<path, pergunta, gi, all_details, invocados, guardrail_ret, tool_calls,
                   input_guardrails, last_agent_used, historico, contexto>>

\* a second completion call that neither returns nor raises, for comparison
chamada_pendurada == FALSE

\* the second completion call returns or raises
RespostaFinal ==
    /\ pc = "completion2"
    /\ \E ok \in BOOLEAN :
         /\ retorno' = processar_mensagem_retorno(
                          IF ok THEN Retorna(<<"Resposta final.",
                                               agente_principal(agentes_usados)>>)
                          ELSE except_externo("completion"))
         /\ calls' = Append(calls, Event("resposta_final", IF ok THEN "ok" ELSE "raise"))
    /\ pc' = "returned"
    /\ UNCHANGED <<path, pergunta, gi, all_details, invocados, guardrail_ret,
                   mensagens, tool_calls, ti, agentes_usados,
                   input_guardrails, last_agent_used, historico, contexto>>

\* a pair that carries the tool messages of the working context along, for
\* comparison
par_com_trabalho(consulta, ret, trabalho) ==
    <<UserMsg(consulta)>> \o SelectSeq(trabalho, LAMBDA m : m.role = "tool")
        \o <<AssistantMsg(ret[1], ret[2])>>

\* the list main extends the history with; the working context of the turn
\* is not part of it
par_do_turno(consulta, ret, trabalho) ==
    <<UserMsg(consulta), AssistantMsg(ret[1], ret[2])>>

\* the caller of the driver stores the turn: the user message and the answer
\* with the tag the driver returned
ArmazenarTurno ==
    /\ pc = "returned"
    /\ historico' = historico \o par_do_turno(pergunta, retorno, mensagens)
    /\ pc' = "persisted"
    /\ UNCHANGED <<path, pergunta, gi, all_details, invocados, guardrail_ret, calls,
                   mensagens, tool_calls, ti, agentes_usados, retorno,
                   input_guardrails, last_agent_used, contexto>>

Next ==
    \/ \E name \in ExtraNames : adicionar_guardrail_entrada(name) /\ UNCHANGED foraDoTurno
    \/ ArmazenarTurno /\ UNCHANGED foraDoTurno
    \/ processar_mensagem /\ UNCHANGED foraDoTurno
    \/ run_agent_loop /\ UNCHANGED foraDoTurno
    \/ ValidarProximo /\ UNCHANGED foraDoTurno
    \/ RetornarBloqueio /\ UNCHANGED foraDoTurno
    \/ PrepararContexto /\ UNCHANGED foraDoTurno
    \/ ChamarRunner /\ UNCHANGED foraDoTurno
    \/ RunnerTool /\ UNCHANGED foraDoTurno
    \/ RunnerRetorna /\ UNCHANGED foraDoTurno
    \/ PrimeiraResposta /\ UNCHANGED foraDoTurno
    \/ ProcessarToolCall /\ UNCHANGED foraDoTurno
    \/ RespostaFinal /\ UNCHANGED foraDoTurno

Spec == Init /\ [][Next]_vars

-----------------------------------------------------------------------------
(* Properties of the guardrail pipeline and of the gate in front of a turn *)

\* validator i of this turn returned a result that is not passed
NaoPassou(i) == ~invocados[i].raised /\ ~invocados[i].passed

\* aplicar_guardrails_entrada has returned its tuple for this turn
PipelineRetornou == guardrail_ret # <<>>

Posicoes(op, arg) == {p \in 1..Len(calls) : calls[p] = Event(op, arg)}

PosicoesOp(ops) == {p \in 1..Len(calls) : calls[p].op \in ops}

\* C1: in aplicar_guardrails_entrada, when a validator returns a result that
\* is not passed, the pipeline returns at once with blocked = true and exactly
\* that validator's message, and no validator later in the list is invoked:
\* validators are invoked in list order, a not-passed result is always the
\* last invocation, the pipeline has then returned <<TRUE, its message, _>>,
\* and the call log has no validator invocation after the block.
C1_CurtoCircuito ==
    /\ \A i \in 1..Len(invocados) :
          /\ invocados[i].name = input_guardrails[i]
          /\ NaoPassou(i) =>
                /\ i = Len(invocados)
                /\ PipelineRetornou
                /\ guardrail_ret[1] = TRUE
                /\ guardrail_ret[2] = invocados[i].message
    /\ \A p \in Posicoes("aplicar_guardrails", "bloqueado") :
          /\ calls[p - 1].op = "validate"
          /\ \A q \in PosicoesOp({"validate"}) : q < p

\* C1 witness: the pipeline returned blocked on a validator that is not the
\* last of the list, so a later validator exists and was left uninvoked
C1_Witness ==
    /\ PipelineRetornou
    /\ invocados # <<>>
    /\ NaoPassou(Len(invocados))
    /\ Len(invocados) < Len(input_guardrails)
    /\ guardrail_ret[1]

\* C2: a validator that raises, or whose moderation/classifier service call
\* fails, is treated as passed (the entry the loop writes into all_details for
\* it says passed) and the
\* next validator of the list is still invoked; the pipeline returns blocked
\* only when the last invoked validator returned a not-passed result without
\* having failed.
C2_FalhaAberta ==
    /\ \A i \in 1..Len(invocados) :
          invocados[i].falhou =>
             /\ invocados[i].passed
             /\ i < Len(input_guardrails) =>
                   \/ Len(invocados) > i
                   \/ pc = "guardrails" /\ gi = i + 1
    /\ (PipelineRetornou /\ guardrail_ret[1]) =>
          /\ NaoPassou(Len(invocados))
          /\ ~invocados[Len(invocados)].falhou

\* C2 witness: the moderation service failed, a registered validator raised,
\* every validator of the list was still invoked, and the pipeline did not block
C2_Witness ==
    /\ PipelineRetornou
    /\ ~guardrail_ret[1]
    /\ Len(invocados) = Len(input_guardrails)
    /\ invocados[1].falhou
    /\ \E i \in 1..Len(invocados) : invocados[i].raised

Orquestrador == {"completion", "runner", "handler"}

\* C3: in every turn the completion service or the agent runner (and any
\* handler behind them) is invoked only after the pipeline has returned
\* not-blocked for the turn's input; when the pipeline blocked, the log of the
\* turn has no orchestrator call and the turn, once returned, carries the
\* blocking validator's message unchanged with the tag 'guardrail'.
C3_OrquestradorSoAposLiberacao ==
    /\ \A p \in PosicoesOp(Orquestrador) :
          \E q \in Posicoes("aplicar_guardrails", "liberado") : q < p
    /\ Posicoes("aplicar_guardrails", "bloqueado") # {} =>
          /\ PosicoesOp(Orquestrador) = {}
          /\ pc \in {"gate", "returned", "persisted"}
          /\ pc \in {"returned", "persisted"} =>
                /\ invocados # <<>>
                /\ retorno = <<invocados[Len(invocados)].message, "guardrail">>

\* C3 witness: a run_agent_loop turn returned blocked by the topic validator
C3_Witness ==
    /\ pc = "returned"
    /\ path = "agents"
    /\ Posicoes("aplicar_guardrails", "bloqueado") # {}
    /\ retorno = <<MENSAGEM_COMIDA, "guardrail">>

-----------------------------------------------------------------------------
(* Properties of the tool loop *)

\* the first completion reply of this turn asked for tool calls
TurnoComTools == tool_calls # <<>>

ToolMsgs == SelectSeq(mensagens, LAMBDA m : m.role = "tool")

EhErro(resultado) == "erro" \in DOMAIN resultado /\ resultado.erro

\* the loop is still running, or it ended and the final call was placed
LoopContinua == pc = "tools" \/ Posicoes("completion", "sem_tools") # {}

\* C6: when the first reply requests t1..tn, they are processed one after
\* another in the order received; exactly one tool message per processed
\* invocation, carrying its tool_call_id, is appended to the context in that
\* order; a handler runs right before its own tool message; the second
\* completion call is placed only after all n tool messages are appended, and
\* it is the call without tool schemas.
C6_LoopOrdenado ==
    TurnoComTools =>
        LET k   == Len(ToolMsgs)
            ev  == SelectSeq(calls, LAMBDA e : e.op \in {"handler", "tool_message"})
            tme == SelectSeq(calls, LAMBDA e : e.op = "tool_message")
        IN /\ k = Len(agentes_usados)
           /\ k <= Len(tool_calls)
           /\ \A i \in 1..k :
                 /\ ToolMsgs[i].tool_call_id = tool_calls[i].id
                 /\ ToolMsgs[i].name = tool_calls[i].name
                 /\ mensagens[Len(mensagens) - k + i] = ToolMsgs[i]
           /\ Len(tme) = k
           /\ \A i \in 1..k : tme[i].arg = tool_calls[i].id
           /\ \A j \in 1..Len(ev) :
                 ev[j].op = "handler" =>
                    /\ j < Len(ev)
                    /\ ev[j + 1] = Event("tool_message", ev[j].arg)
           /\ Cardinality(Posicoes("completion", "com_tools")) = 1
           /\ Cardinality(Posicoes("completion", "sem_tools")) <= 1
           /\ \A p \in Posicoes("completion", "sem_tools") :
                 /\ k = Len(tool_calls)
                 /\ \A q \in PosicoesOp({"handler", "tool_message"}) : q < p
                 /\ \A q \in Posicoes("completion", "com_tools") : q < p
           /\ pc = "completion2" => Posicoes("completion", "sem_tools") # {}

\* C6 witness: two invocations, both handlers ran, both tool messages are in
\* the context, and the second completion call is out
C6_Witness ==
    /\ pc = "completion2"
    /\ Len(tool_calls) = 2
    /\ Len(ToolMsgs) = 2
    /\ Posicoes("handler", tool_calls[1].id) # {}
    /\ Posicoes("handler", tool_calls[2].id) # {}

\* C7 as stated: whenever tool invocations were requested, the tag the turn
\* returns is the name of the first invocation.
C7_TagSempreOPrimeiro ==
    (pc \in {"returned", "persisted"} /\ TurnoComTools) => retorno[2] = tool_calls[1].name

\* C7: when tool invocations were requested and the final-answer completion
\* call returned, the tag returned is the name of the first invocation in the
\* order the service listed them, however many follow and whether or not each
\* produced an error result.
C7_TagPrimeiroInvocado ==
    (pc \in {"returned", "persisted"} /\ TurnoComTools
        /\ Posicoes("resposta_final", "ok") # {})
        => retorno[2] = tool_calls[1].name

\* C7 witness: two invocations with different names, the first one ended in an
\* error result, and the turn returned the first name
C7_Witness ==
    /\ pc = "returned"
    /\ Len(tool_calls) = 2
    /\ tool_calls[1].name # tool_calls[2].name
    /\ Len(ToolMsgs) = 2
    /\ EhErro(ToolMsgs[1].content)
    /\ ~EhErro(ToolMsgs[2].content)
    /\ retorno[2] = tool_calls[1].name

\* C8: an invocation whose raw arguments do not parse has no handler
\* invoked, gets a tool message with the fixed payload (erro = true, 'Erro ao
\* processar argumentos da funcao'), and does not stop the loop: the remaining
\* invocations are processed and the final-answer call is placed.
C8_ArgumentosNaoParseaveis ==
    \A i \in 1..Len(agentes_usados) :
        json_loads(tool_calls[i].arguments) = <<>> =>
            /\ Posicoes("handler", tool_calls[i].id) = {}
            /\ Len(ToolMsgs) >= i
            /\ ToolMsgs[i] = [tool_call_id |-> tool_calls[i].id, role |-> "tool",
                              name |-> tool_calls[i].name,
                              content |-> [erro |-> TRUE,
                                           mensagem |-> MENSAGEM_ERRO_PARSE]]
            /\ LoopContinua
            /\ pc # "tools" => Len(ToolMsgs) = Len(tool_calls)

\* C8 witness: the first of two invocations did not parse, the second one was
\* executed by its handler, and the final call is out
C8_Witness ==
    /\ pc = "completion2"
    /\ Len(tool_calls) = 2
    /\ json_loads(tool_calls[1].arguments) = <<>>
    /\ Posicoes("handler", tool_calls[2].id) # {}
    /\ Len(ToolMsgs) = 2

\* the fields each specialist requires
CamposObrigatorios(function_name) ==
    CASE function_name = "emprestimo_agent"    -> {"cpf", "valor", "qtd_parcelas"}
      [] function_name = "analise_risco_agent" -> {"cpf"}
      [] function_name = "web_search_agent"    -> {"pergunta"}
      [] function_name = "file_search_agent"   -> {"cpf", "pergunta"}

\* the parsed arguments break the contract of the named specialist: a required
\* field is missing, a number cannot be coerced, the amount or the installment
\* count is not positive, or the identifier or the question is blank
ViolaContrato(function_name, args) ==
    /\ function_name \in available_functions
    /\ args.t = "obj"
    /\ LET campos == CamposObrigatorios(function_name)
           a == args.f
       IN \/ ~(campos \subseteq DOMAIN a)
          \/ /\ campos \subseteq DOMAIN a
             /\ \/ "cpf" \in campos /\ str_strip_vazio(a.cpf)
                \/ "pergunta" \in campos /\ str_strip_vazio(a.pergunta)
                \/ /\ function_name = "emprestimo_agent"
                   /\ \/ to_number(a.valor) = <<>>
                      \/ to_number(a.qtd_parcelas) = <<>>
                      \/ to_number(a.valor) # <<>> /\ to_number(a.valor)[1] <= 0
                      \/ /\ to_number(a.qtd_parcelas) # <<>>
                         /\ to_number(a.qtd_parcelas)[1] <= 0

\* C9: in _execute_function, when the parsed arguments fail validation for
\* the named specialist (required field missing, value not coercible, amount
\* <= 0, installment count <= 0, blank identifier or blank question), the
\* handler is not invoked and the result is a structured error (erro = true),
\* which becomes the tool message of the invocation.
C9_ValidacaoAntesDoHandler ==
    \A i \in 1..Len(agentes_usados) :
        LET parsed == json_loads(tool_calls[i].arguments)
        IN (parsed # <<>> /\ ViolaContrato(tool_calls[i].name, parsed[1])) =>
              /\ Posicoes("handler", tool_calls[i].id) = {}
              /\ Len(ToolMsgs) >= i
              /\ EhErro(ToolMsgs[i].content)
              /\ EhErro(_execute_function(tool_calls[i].name, parsed[1], "ok")[2])

\* C9 witness: a loan request with zero installments and a web search with a
\* blank question were both processed and answered with error results
C9_Witness ==
    /\ pc = "completion2"
    /\ Len(tool_calls) = 2
    /\ tool_calls[1].arguments = RAW_PARCELAS_ZERO
    /\ tool_calls[2].arguments = RAW_PERGUNTA_BRANCA
    /\ tool_calls[2].name = "web_search_agent"
    /\ EhErro(ToolMsgs[1].content)
    /\ EhErro(ToolMsgs[2].content)
    /\ PosicoesOp({"handler"}) = {}

\* the handler of invocation i was called and raised
HandlerLevantou(i) ==
    /\ tool_call_invoca_handler(tool_calls[i])
    /\ chamar_handler(tool_calls[i].name,
                      json_loads(tool_calls[i].arguments)[1], "ok")[1] = "raise"

DescricaoDaExcecao(i) ==
    chamar_handler(tool_calls[i].name, json_loads(tool_calls[i].arguments)[1], "ok")[2]

\* C10: an exception raised by a handler during the tool loop is caught in
\* _execute_function and becomes a structured error result carrying the
\* exception's description; it does not leave the loop: the tool message of
\* that invocation is appended, the following invocations are processed and
\* the final-answer call is placed.
C10_ExcecaoDoHandlerContida ==
    /\ \A i \in 1..Len(agentes_usados) :
          HandlerLevantou(i) =>
             /\ Posicoes("handler", tool_calls[i].id) # {}
             /\ Len(ToolMsgs) >= i
             /\ ToolMsgs[i].content =
                   [erro |-> TRUE,
                    mensagem |-> "Erro interno ao executar " \o tool_calls[i].name
                                 \o ": " \o DescricaoDaExcecao(i)]
             /\ LoopContinua
    /\ (TurnoComTools /\ pc \in {"completion2", "returned", "persisted"}) =>
          /\ Len(ToolMsgs) = Len(tool_calls)
          /\ Posicoes("completion", "sem_tools") # {}

\* C10 witness: the handler of the first invocation raised, the second
\* invocation was still executed, and the turn returned the final answer
C10_Witness ==
    /\ pc = "returned"
    /\ Len(tool_calls) = 2
    /\ HandlerLevantou(1)
    /\ Posicoes("handler", tool_calls[2].id) # {}
    /\ Len(ToolMsgs) = 2
    /\ retorno = <<"Resposta final.", tool_calls[1].name>>

-----------------------------------------------------------------------------
(* Properties of the protocol with the completion service *)

\* a call to the completion service placed by the orchestrator failed
CompletionFalhou ==
    Posicoes("primeira_resposta", "raise") # {} \/ Posicoes("resposta_final", "raise") # {}

\* C11: when the first or the second completion call fails,
\* processar_resposta_com_tools returns the fixed apology with the tag
\* 'assistant_erro' to its caller, whatever handlers had already run, and its
\* caller hands that pair on; a failing runner ends the same way; every turn
\* that ended holds a (text, agent) pair.
C11_FalhaViraDesculpa ==
    /\ CompletionFalhou =>
          /\ pc \in {"returned", "persisted"}
          /\ retorno = <<MENSAGEM_ERRO_INTERNO, "assistant_erro">>
    /\ Posicoes("runner_retorna", "raise") # {} =>
          /\ pc \in {"returned", "persisted"}
          /\ retorno = <<MENSAGEM_ERRO_INTERNO, "assistant_erro">>
    /\ pc \in {"returned", "persisted"} => Len(retorno) = 2
    /\ pc \notin {"returned", "persisted"} => retorno = <<>>

\* C11 witness: the second completion call failed after a handler had run
C11_Witness ==
    /\ pc = "returned"
    /\ Posicoes("resposta_final", "raise") # {}
    /\ PosicoesOp({"handler"}) # {}
    /\ retorno = <<MENSAGEM_ERRO_INTERNO, "assistant_erro">>

\* C12: when the first completion reply carries no tool invocation, the turn
\* returns that reply's content with the tag 'assistant_geral', no handler is
\* invoked and no second completion call is made.
C12_RespostaSemTools ==
    Posicoes("primeira_resposta", "texto") # {} =>
        /\ pc \in {"returned", "persisted"}
        /\ \E content \in RespostasDiretas :
              /\ Posicoes("conteudo", content) # {}
              /\ retorno = <<content, "assistant_geral">>
        /\ PosicoesOp({"handler"}) = {}
        /\ Cardinality(PosicoesOp({"completion"})) = 1
        /\ Posicoes("completion", "sem_tools") = {}

\* C12 witness: a chat turn answered directly by the first reply
C12_Witness ==
    /\ pc = "returned"
    /\ Posicoes("primeira_resposta", "texto") # {}
    /\ retorno = <<"Ola!", "assistant_geral">>

\* C13 as stated: one turn of the tool orchestrator makes at most two calls to
\* the completion service, whatever invocations were requested.
C13_NoMaximoDuasChamadas ==
    Cardinality(PosicoesOp({"completion"})) <= 2

ChamadasDoOrquestrador ==
    Posicoes("completion", "com_tools") \cup Posicoes("completion", "sem_tools")

\* web search handlers that ran in this turn
BuscasExecutadas ==
    {i \in 1..Len(agentes_usados) :
        /\ tool_calls[i].name = "web_search_agent"
        /\ Posicoes("handler", tool_calls[i].id) # {}}

\* C13: processar_resposta_com_tools itself places at most two calls to the
\* completion service in a turn: exactly one when the first reply carries no
\* tool invocation, exactly two once the tool loop has ended; every web search
\* handler that runs places one more call, to the search model, on its own.
C13_DuasChamadasDoOrquestrador ==
    /\ Cardinality(ChamadasDoOrquestrador) <= 2
    /\ Posicoes("primeira_resposta", "texto") # {} =>
          Cardinality(ChamadasDoOrquestrador) = 1
    /\ (TurnoComTools /\ pc \in {"completion2", "returned", "persisted"}) =>
          Cardinality(ChamadasDoOrquestrador) = 2
    /\ path = "chat" =>
          Cardinality(Posicoes("completion", "search")) = Cardinality(BuscasExecutadas)

\* C13 witness: two web searches ran in one turn, which made four calls to the
\* completion service
C13_Witness ==
    /\ pc = "returned"
    /\ Cardinality(BuscasExecutadas) = 2
    /\ Cardinality(PosicoesOp({"completion"})) = 4
    /\ Cardinality(ChamadasDoOrquestrador) = 2

\* C14 as stated: an invocation whose name is not in the dispatch table gets
\* the structured error 'Funcao <name> nao encontrada' as its result, and no
\* handler is invoked for it.
C14_FuncaoNaoEncontrada ==
    \A i \in 1..Len(agentes_usados) :
        ( /\ json_loads(tool_calls[i].arguments) # <<>>
          /\ tool_calls[i].name \notin available_functions ) =>
            /\ Posicoes("handler", tool_calls[i].id) = {}
            /\ Len(ToolMsgs) >= i
            /\ ToolMsgs[i].content =
                  [erro |-> TRUE,
                   mensagem |-> "Funcao " \o tool_calls[i].name \o " nao encontrada"]

\* the closed set of identifiers: the four specialists, general, error,
\* guardrail and welcome
SpecialistIds ==
    {"emprestimo_agent", "analise_risco_agent", "web_search_agent", "file_search_agent",
     "assistant_geral", "assistant_erro", "guardrail", "assistant_inicial"}

\* C15 as stated: every tag a turn returns, and every tag stored on an
\* assistant message of the history, belongs to the closed set of identifiers.
C15_TagNoConjuntoFechado ==
    /\ pc \in {"returned", "persisted"} => retorno[2] \in SpecialistIds
    /\ \A j \in 1..Len(historico) :
          historico[j].role = "assistant" => historico[j].agent \in SpecialistIds

-----------------------------------------------------------------------------
(* src/utils/historico_manager.py *)

Min(S) == CHOOSE x \in S : \A y \in S : x <= y

\* the list `mensagens_agente` before the slice: the assistant messages of
\* the history tagged `agente`, in history order
mensagens_do_agente(h, agente) ==
    SelectSeq(h, LAMBDA m : get(m, "role") = "assistant" /\ get(m, "agent") = agente)

\* mensagens_agente[-self.limite_mensagens_por_agente:]
obter_historico_limitado_por_agente(h, agente, limite) ==
    ultimos(mensagens_do_agente(h, agente), limite)

\* no system message is collected, for comparison
sem_mensagens_system(h) == <<>>

_extrair_mensagens_system(h) == SelectSeq(h, LAMBDA m : get(m, "role") = "system")

_mensagem_corresponde(msg, msg_agente, agente) ==
    /\ get(msg, "content") = get(msg_agente, "content")
    /\ get(msg, "role") = "assistant"
    /\ get(msg, "agent") = agente

\* the message before the first history position that holds a message equal
\* to msg_agente and directly follows a user message, as <<message>>;
\* <<>> when the loop ends without a match (Python's None)
_encontrar_pergunta_anterior(msg_agente, agente, h) ==
    LET achados == {i \in 2..Len(h) :
                      /\ _mensagem_corresponde(h[i], msg_agente, agente)
                      /\ get(h[i - 1], "role") = "user"}
    IN  IF achados = {} THEN <<>> ELSE <<h[Min(achados) - 1]>>

\* the for loop of _obter_mensagens_agente_com_contexto over mensagens_agente
RECURSIVE estender_com_pergunta(_, _, _)
estender_com_pergunta(mensagens_agente, agente, h) ==
    IF mensagens_agente = <<>> THEN <<>>
    ELSE LET msg_agente == Head(mensagens_agente)
             achada == _encontrar_pergunta_anterior(msg_agente, agente, h)
         IN  (IF achada # <<>> THEN <<achada[1], msg_agente>> ELSE <<>>)
             \o estender_com_pergunta(Tail(mensagens_agente), agente, h)

_obter_mensagens_agente_com_contexto(h, agente, limite) ==
    estender_com_pergunta(obter_historico_limitado_por_agente(h, agente, limite), agente, h)

obter_contexto_relevante_para_agente(h, agente, pergunta_atual, limite) ==
    _extrair_mensagens_system(h)
        \o _obter_mensagens_agente_com_contexto(h, agente, limite)
        \o <<UserMsg(pergunta_atual)>>

-----------------------------------------------------------------------------
(* SpecGerenciador: the history window of both managers, with the limit of
   the HistoricoManager changed while the process runs *)

MaxHistGerenciador == 7   \* messages of a conversation (SpecGerenciador)
MaxLimite == 2            \* largest limit given to configurar_limite

\* the agent tags a context is asked for
Agentes == {"emprestimo_agent", "analise_risco_agent", "assistant_inicial"}

InitGerenciador == InitHistorico

\* the assignment without the check of novo_limite, for comparison
configurar_sem_validar(novo_limite) ==
    /\ limite_mensagens_por_agente' = novo_limite
    /\ ultima_configuracao' = [novo_limite |-> novo_limite, erro |-> ""]
    /\ contexto' = <<>>
    /\ contexto_relevante' = <<>>
    /\ UNCHANGED historico

\* HistoricoManager.configurar_limite; the contexts computed before the call
\* are discarded, so that contexto and contexto_relevante always hold results
\* computed under the history and the limit of the current state
configurar_limite(novo_limite) ==
    /\ IF novo_limite <= 0
       THEN /\ UNCHANGED limite_mensagens_por_agente
            /\ ultima_configuracao' = [novo_limite |-> novo_limite, erro |-> "ValueError"]
       ELSE /\ limite_mensagens_por_agente' = novo_limite
            /\ ultima_configuracao' = [novo_limite |-> novo_limite, erro |-> ""]
    /\ contexto' = <<>>
    /\ contexto_relevante' = <<>>
    /\ UNCHANGED historico

\* HistoricoManager.obter_contexto_relevante_para_agente on the saved history
ObterContextoRelevante ==
    /\ contexto_relevante = <<>>
    /\ \E agente \in Agentes, pergunta_atual \in Perguntas :
          contexto_relevante' =
              <<agente, pergunta_atual,
                obter_contexto_relevante_para_agente(historico, agente, pergunta_atual,
                                                     limite_mensagens_por_agente)>>
    /\ UNCHANGED <<historico, contexto, limite_mensagens_por_agente, ultima_configuracao>>

\* a step of the conversation: the history changes, the results are dropped
Conversa ==
    /\ \/ SessaoNova
       \/ Len(historico) < MaxHistGerenciador /\ PrepararHistorico
       \/ Len(historico) < MaxHistGerenciador /\ BoasVindas
       \/ Len(historico) + 2 <= MaxHistGerenciador /\ AnexarTurno
    /\ contexto_relevante' = <<>>
    /\ UNCHANGED <<limite_mensagens_por_agente, ultima_configuracao>>

NextGerenciador ==
    \/ Conversa /\ UNCHANGED <<foraDaConversa>>
    \/ AplicarLimitacao
          /\ UNCHANGED <<foraDaConversa, gerenciadorVars>>
    \/ ObterContextoRelevante /\ UNCHANGED <<foraDaConversa>>
    \/ \E novo_limite \in 0..MaxLimite :
          configurar_limite(novo_limite)
              /\ UNCHANGED <<foraDaConversa>>

SpecGerenciador == InitGerenciador /\ [][NextGerenciador]_vars

-----------------------------------------------------------------------------
(* Properties of the bounded context of both managers *)

\* the system-role messages of a list, in the order of the list
MensagensSystem(s) == SelectSeq(s, LAMBDA m : m.role = "system")

\* a context of the HistoricoManager was computed
Relevante == contexto_relevante # <<>>

ContextoEnviado == pc = "completion1" /\ path = "chat"

\* C17: the context sent to the orchestrator ends with the current user input
\* as its last message, and when the history is empty that message is the
\* only one of the context that is not a system message.
C17_TerminaNaPerguntaAtual ==
    ContextoEnviado =>
        /\ mensagens # <<>>
        /\ mensagens[Len(mensagens)] = UserMsg(pergunta)
        /\ historico = <<>> =>
              SelectSeq(mensagens, LAMBDA m : m.role # "system") = <<UserMsg(pergunta)>>

\* a context was sent for a turn with an empty history
C17_Witness ==
    /\ ContextoEnviado
    /\ historico = <<>>
    /\ mensagens = <<SystemMsg(PROMPT_BASE), UserMsg(pergunta)>>

\* positions of the assistant messages of h tagged a that have no user
\* message anywhere before them, and of those that have one
SemPerguntaAntes(h, a) == {i \in PosicoesDe(h, a) : ~TemPerguntaAntes(h, i)}

ComPerguntaAntes(h, a) == {i \in PosicoesDe(h, a) : TemPerguntaAntes(h, i)}

\* the last k positions of ComPerguntaAntes
UltimasComPergunta(h, a, k) ==
    {i \in ComPerguntaAntes(h, a) :
        Cardinality({j \in ComPerguntaAntes(h, a) : j > i}) < k}

\* C18: an assistant message with no user message anywhere before it in the
\* history is left out of the bounded context, the context is still
\* returned, and the other pairs of the same agent tag are retained: for a
\* tag that has such a message, the context of the ChatManager holds one
\* tagged message for each of the last K tagged messages that do have a user
\* message before them, each with its question, and none for the others;
\* the context of the HistoricoManager does not hold the message either.
C18_SemPerguntaFicaDeFora ==
    /\ Aplicado =>
          \A a \in agentes_encontrados(historico) :
              SemPerguntaAntes(historico, a) # {} =>
                  LET ult == UltimasComPergunta(historico, a, LIMITE_POR_AGENTE)
                  IN  /\ Cardinality(PosicoesDe(contexto[1], a)) = Cardinality(ult)
                      /\ \A c \in PosicoesDe(contexto[1], a) :
                            \E i \in ult : historico[i] = contexto[1][c]
                      /\ \A i \in ult :
                            /\ \E c \in PosicoesDe(contexto[1], a) :
                                  contexto[1][c] = historico[i]
                            /\ AcompanhadaDaPergunta(historico, contexto[1], i)
    /\ Relevante =>
          \A i \in SemPerguntaAntes(historico, contexto_relevante[1]) :
              (\A j \in ComPerguntaAntes(historico, contexto_relevante[1]) :
                    historico[j] # historico[i])
                  => \A c \in 1..Len(contexto_relevante[3]) :
                        contexto_relevante[3][c] # historico[i]

\* a tag has a message with no user message before it and a later pair; the
\* context of the ChatManager keeps the pair only
C18_Witness ==
    /\ Aplicado
    /\ \E a \in agentes_encontrados(historico) :
          /\ SemPerguntaAntes(historico, a) # {}
          /\ ComPerguntaAntes(historico, a) # {}
          /\ Cardinality(PosicoesDe(contexto[1], a)) = Cardinality(ComPerguntaAntes(historico, a))
          /\ Cardinality(PosicoesDe(contexto[1], a)) < Cardinality(PosicoesDe(historico, a))

\* C19 as stated: after configurar_limite(n) the next bounded context built
\* for a turn retains at most n interactions per agent tag. (contexto is
\* always a result computed after the last change of the limit.)
C19_LimiteConfiguradoVale ==
    Aplicado =>
        \A a \in agentes_encontrados(historico) :
            Cardinality(PosicoesDe(contexto[1], a)) <= limite_mensagens_por_agente

-----------------------------------------------------------------------------
(* Observability of the guardrail pipeline *)

\* the entries all_details holds under `name` when the validator answered
\* without failing and passed the input
EntradasDeAprovacao(name) ==
    {details_entry(name, o) : o \in {x \in Outcomes(name) :
        ~Falhou(name, x) /\ ~validate_raises(name, x) /\ validate(name, x).passed}}

\* C20 as stated: whenever a validator failed internally, the details map
\* returned by aplicar_guardrails_entrada holds under that validator's name
\* an entry that differs from every entry written for a genuine approval by
\* that validator.
C20_FalhaRegistradaNosDetalhes ==
    PipelineRetornou =>
        \A i \in 1..Len(invocados) :
            (/\ invocados[i].falhou
             /\ \A j \in (i + 1)..Len(invocados) : invocados[j].name # invocados[i].name)
                => /\ invocados[i].name \in DOMAIN guardrail_ret[3]
                   /\ guardrail_ret[3][invocados[i].name]
                         \notin EntradasDeAprovacao(invocados[i].name)

\* C21 as stated: for an empty or whitespace-only input the guardrail
\* pipeline never returns blocked = true, whatever the classifiers answer.
C21_EntradaVaziaNuncaBloqueada ==
    (pc # "idle" /\ pergunta = ENTRADA_VAZIA /\ PipelineRetornou) => ~guardrail_ret[1]

\* the validators the manager is built with, in list order
VALIDADORES_INICIAIS == <<"openai_moderation", "food_content">>

\* the i-th invocation of the pipeline run is the i-th validator of the list,
\* and the list starts with the moderation and the topic validator
InvocadosNaOrdemDaLista ==
    /\ Len(input_guardrails) >= Len(VALIDADORES_INICIAIS)
    /\ SubSeq(input_guardrails, 1, Len(VALIDADORES_INICIAIS)) = VALIDADORES_INICIAIS
    /\ Len(invocados) <= Len(input_guardrails)
    /\ \A i \in 1..Len(invocados) : invocados[i].name = input_guardrails[i]
    /\ pc = "guardrails" => gi = Len(invocados) + 1

\* a step that changes the list appends one validator at its end
RegistroNoFim ==
    input_guardrails' # input_guardrails =>
        \E name \in ExtraNames : input_guardrails' = Append(input_guardrails, name)

-----------------------------------------------------------------------------
(* SpecSaida: turns of a process whose GuardRailsManager has output
   validators registered *)

MaxOutputGuardrails == 1   \* validators registered with adicionar_guardrail_saida

OutputNames == {"saida"}

\* GuardRailsManager.adicionar_guardrail_saida, while the process is being
\* configured (before its first turn)
adicionar_guardrail_saida(name) ==
    /\ pc = "idle"
    /\ Len(output_guardrails) < MaxOutputGuardrails
    /\ output_guardrails' = Append(output_guardrails, name)
    /\ UNCHANGED <<turnVars, input_guardrails, last_agent_used, historico, contexto,
                   gerenciadorVars, arquivo, sessoes, concorrenteVars, simulacao,
                   bancoVars, analise_risco>>

\* the steps of a turn, through either driver. No step calls
\* aplicar_guardrails_saida: the function has no caller in the repository.
Turno ==
    \/ ArmazenarTurno
    \/ processar_mensagem
    \/ run_agent_loop
    \/ ValidarProximo
    \/ RetornarBloqueio
    \/ PrepararContexto
    \/ ChamarRunner
    \/ RunnerTool
    \/ RunnerRetorna
    \/ PrimeiraResposta
    \/ ProcessarToolCall
    \/ RespostaFinal

NextSaida ==
    \/ \E name \in OutputNames : adicionar_guardrail_saida(name)
    \/ Turno /\ UNCHANGED foraDoTurno

SpecSaida == Init /\ [][NextSaida]_vars

\* C23 as stated: once an output validator is registered, every final answer
\* a turn returns has first been passed through the output guardrail
\* pipeline (the log of the turn holds a call of aplicar_guardrails_saida).
C23_RespostaPassaPelaSaida ==
    (output_guardrails # <<>> /\ pc \in {"returned", "persisted"}) =>
        PosicoesOp({"aplicar_guardrails_saida"}) # {}

-----------------------------------------------------------------------------
(* Properties of the conversation of one customer *)

\* positions of the system messages that establish the customer identifier
PosicoesDeIdentidade(h) ==
    {i \in 1..Len(h) : h[i].role = "system" /\ h[i].content = MENSAGEM_CPF}

\* C24: after any sequence of session starts and turns the conversation
\* holds at most one system message establishing the customer identifier,
\* and preparing a session on the conversation a second time adds none.
C24_IdentidadeUnica ==
    /\ Cardinality(PosicoesDeIdentidade(historico)) <= 1
    /\ LET preparado == adicionar_cpf_ao_contexto(historico)
       IN  /\ Cardinality(PosicoesDeIdentidade(preparado)) = 1
           /\ adicionar_cpf_ao_contexto(preparado) = preparado

\* a conversation that got its identity message at a later session start
\* (in front of a first turn) and went on for two more turns
C24_Witness ==
    /\ Len(historico) >= 7
    /\ PosicoesDeIdentidade(historico) = {1}
    /\ historico[2].role = "user"
    /\ adicionar_cpf_ao_contexto(historico) = historico

-----------------------------------------------------------------------------
(* SpecSessoes: two runs of main for the same customer identifier, which
   share the stored history. db.inicializar_conexao has no caller, so
   conexao_disponivel stays False and the store is the local file. *)

MaxTurnosSessao == 2   \* turns of the runs that take one place in Sessoes

\* carregar_historico: json.load of the file, [] when there is none
carregar_historico(arq) == arq

\* a store that keeps a document it already holds, for comparison
salvar_sem_substituir(arq, h) == IF arq = <<>> THEN h ELSE arq

\* salvar_historico: json.dump of the whole list over the file
salvar_historico(arq, h) == h

\* what the user of a run types
PerguntaDe(s) == IF s = "A" THEN "oi" ELSE "quero um emprestimo"

\* what run_agent_loop returns for it: (texto, agente)
RespostasDoTurno ==
    { <<"Emprestimo aprovado.", "emprestimo_agent">>,
      <<MENSAGEM_ERRO_INTERNO, "assistant_erro">> }

\* main.py:24
CarregarHistorico(s) ==
    /\ sessoes[s].passo = "fora"
    /\ sessoes' = [sessoes EXCEPT ![s].passo = "carregado",
                                  ![s].hist = carregar_historico(arquivo)]
    /\ UNCHANGED arquivo

\* main.py:25-32: a first session appends the identity message and the
\* welcome and saves; a later one injects the identity message if missing
IniciarSessao(s) ==
    /\ sessoes[s].passo = "carregado"
    /\ IF sessoes[s].hist = <<>>
       THEN LET h == enviar_boas_vindas(<<SystemMsg(MENSAGEM_CPF)>>)
            IN  /\ arquivo' = salvar_historico(arquivo, h)
                /\ sessoes' = [sessoes EXCEPT ![s].passo = "pronto", ![s].hist = h,
                                              ![s].salvo = h]
       ELSE /\ sessoes' = [sessoes EXCEPT ![s].passo = "pronto",
                               ![s].hist = adicionar_cpf_ao_contexto(sessoes[s].hist)]
            /\ UNCHANGED arquivo

\* main.py:35-43: the user types, run_agent_loop returns
ResponderTurno(s) ==
    /\ sessoes[s].passo = "pronto"
    /\ sessoes[s].turnos < MaxTurnosSessao
    /\ \E r \in RespostasDoTurno :
          sessoes' = [sessoes EXCEPT ![s].passo = "respondido",
                                    ![s].ret = <<PerguntaDe(s), r[1], r[2]>>]
    /\ UNCHANGED arquivo

\* main.py:49-52
EstenderHistorico(s) ==
    /\ sessoes[s].passo = "respondido"
    /\ LET r == sessoes[s].ret
       IN  sessoes' = [sessoes EXCEPT
               ![s].passo = "anexado",
               ![s].hist = estender_historico(sessoes[s].hist,
                               <<UserMsg(r[1]), AssistantMsg(r[2], r[3])>>)]
    /\ UNCHANGED arquivo

\* main.py:54
SalvarHistorico(s) ==
    /\ sessoes[s].passo = "anexado"
    /\ arquivo' = salvar_historico(arquivo, sessoes[s].hist)
    /\ sessoes' = [sessoes EXCEPT ![s].passo = "pronto", ![s].ret = <<>>,
                                  ![s].salvo = salvar_historico(arquivo, sessoes[s].hist),
                                  ![s].turnos = sessoes[s].turnos + 1]

\* main.py:36-38: the user types sair; a later run may take the place
EncerrarSessao(s) ==
    /\ sessoes[s].passo = "pronto"
    /\ sessoes' = [sessoes EXCEPT ![s] = SessaoFora(sessoes[s].turnos)]
    /\ UNCHANGED arquivo

foraDasSessoes == <<turnVars, input_guardrails, last_agent_used, historico, contexto,
                    gerenciadorVars, output_guardrails, concorrenteVars, simulacao,
                    bancoVars, analise_risco>>

NextSessoes ==
    \/ \E s \in Sessoes : CarregarHistorico(s) /\ UNCHANGED foraDasSessoes
    \/ \E s \in Sessoes : IniciarSessao(s) /\ UNCHANGED foraDasSessoes
    \/ \E s \in Sessoes : ResponderTurno(s) /\ UNCHANGED foraDasSessoes
    \/ \E s \in Sessoes : EstenderHistorico(s) /\ UNCHANGED foraDasSessoes
    \/ \E s \in Sessoes : SalvarHistorico(s) /\ UNCHANGED foraDasSessoes
    \/ \E s \in Sessoes : EncerrarSessao(s) /\ UNCHANGED foraDasSessoes

SpecSessoes == InitHistorico /\ [][NextSessoes]_vars

-----------------------------------------------------------------------------
(* Properties of the sessions and of the store *)

IsPrefix(a, b) == Len(a) <= Len(b) /\ SubSeq(b, 1, Len(a)) = a

\* the run s is inside its session in this step: it started before the step
\* and does not end in it
NaSessao(s) ==
    /\ sessoes[s].passo \in {"pronto", "respondido", "anexado"}
    /\ sessoes'[s].passo # "fora"

\* what a step may do to the conversation of a session: nothing, or, when
\* the turn has returned, append the user input and the answer tagged with
\* the agent the turn returned; and a save stores a list that extends the
\* one the session stored before
PassoDaSessao(s) ==
    NaSessao(s) =>
        /\ \/ sessoes'[s].hist = sessoes[s].hist
           \/ /\ sessoes[s].passo = "respondido"
              /\ sessoes'[s].hist =
                     sessoes[s].hist \o <<UserMsg(sessoes[s].ret[1]),
                                          AssistantMsg(sessoes[s].ret[2], sessoes[s].ret[3])>>
        /\ (sessoes[s].passo = "respondido" /\ sessoes'[s].passo # "respondido") =>
              Len(sessoes'[s].hist) = Len(sessoes[s].hist) + 2
        /\ IsPrefix(sessoes[s].salvo, sessoes'[s].salvo)
        /\ sessoes'[s].salvo # sessoes[s].salvo =>
              /\ sessoes'[s].salvo = sessoes[s].hist
              /\ arquivo' = sessoes[s].hist

\* C25: within a session every turn appends exactly two messages to the
\* conversation, the user input followed by one assistant message tagged
\* with the agent the turn returned, and never alters or removes a message
\* already in it; every history the session persists extends the one it
\* persisted before.
C25_ConversaSoCresce == [][\A s \in Sessoes : PassoDaSessao(s)]_vars

\* a session saved after its second turn: the stored list is its
\* conversation, which holds both of its turns
C25_Witness ==
    \E s \in Sessoes :
        /\ sessoes[s].passo = "pronto"
        /\ sessoes[s].turnos = 2
        /\ sessoes[s].salvo = sessoes[s].hist
        /\ arquivo = sessoes[s].hist
        /\ Cardinality({i \in 1..Len(sessoes[s].hist) :
                           sessoes[s].hist[i] = UserMsg(PerguntaDe(s))}) = 2

-----------------------------------------------------------------------------
(* The working context of a turn and the history of its caller *)

\* h holds conversation messages only: no assistant message that carries
\* tool_calls and no tool-result message
SemMensagensDeTrabalho(h) ==
    \A i \in 1..Len(h) :
        /\ h[i].role \in {"system", "user", "assistant"}
        /\ "tool_calls" \notin DOMAIN h[i]
        /\ "tool_call_id" \notin DOMAIN h[i]

\* a step of a turn in progress leaves the history as it is, and the step
\* that stores the finished turn appends the (user, assistant) pair
HistoricoForaDoTrabalho ==
    /\ pc \notin {"idle", "returned", "persisted"} => historico' = historico
    /\ (pc = "returned" /\ pc' = "persisted") =>
          /\ Len(historico') = Len(historico) + 2
          /\ SubSeq(historico', 1, Len(historico)) = historico
          /\ historico'[Len(historico) + 1] = UserMsg(pergunta)
          /\ historico'[Len(historico) + 2] = AssistantMsg(retorno[1], retorno[2])

\* C26: a turn leaves the caller's conversation history unchanged: the
\* assistant tool-call message and the tool-result messages are added only to
\* the working context and never appear in the history passed to the turn
\* nor in the stored history, which only receives the (user, assistant) pair.
C26_TrabalhoForaDoHistorico ==
    [](SemMensagensDeTrabalho(historico)) /\ [][HistoricoForaDoTrabalho]_vars

\* a stored turn whose working context holds the tool-call message and a
\* tool result, on top of a history that was not empty
C26_Witness ==
    /\ pc = "persisted"
    /\ path = "chat"
    /\ ToolMsgs # <<>>
    /\ \E i \in 1..Len(mensagens) : "tool_calls" \in DOMAIN mensagens[i]
    /\ historico = HISTORICO_ANTERIOR \o <<UserMsg(pergunta), AssistantMsg(retorno[1], retorno[2])>>

\* the list h holds a turn of the run s
TemTurnoDe(h, s) == \E i \in 1..Len(h) : h[i] = UserMsg(PerguntaDe(s))

\* a save of the run s leaves in the store exactly the list of s, whatever
\* the store held and whatever the other run is doing
SalvaSubstituiTudo ==
    \A s \in Sessoes :
        (sessoes'[s].salvo # sessoes[s].salvo /\ sessoes'[s].passo # "fora") =>
            /\ arquivo' = sessoes'[s].hist
            /\ \A t \in Sessoes \ {s} : sessoes'[t] = sessoes[t]

\* C27: two sessions for the same customer whose load, turn, append and
\* save steps interleave can end with a stored history that lacks the turn
\* appended by one of them. Every save replaces the whole stored list by
\* the local list of the saving run and no step waits for the other run;
\* the state with the lost turn is C27_Witness.
C27_SubstituicaoSemTrava == [][SalvaSubstituiTudo]_vars

\* both runs are back at the prompt, the run s stored a list with its turn,
\* and the store now holds the list of the other run, without that turn
C27_Witness ==
    \E s \in Sessoes : \E t \in Sessoes \ {s} :
        /\ sessoes[s].passo = "pronto"
        /\ sessoes[t].passo = "pronto"
        /\ TemTurnoDe(sessoes[s].salvo, s)
        /\ TemTurnoDe(sessoes[t].salvo, t)
        /\ arquivo = sessoes[t].salvo
        /\ ~TemTurnoDe(arquivo, s)

-----------------------------------------------------------------------------
(* src/agents_openai.py: calls of run_agent_loop for different customers that
   run at the same time. The function rebinds the module global _context_data
   to the caller's dict, and the function tools and the final read of the
   agent tag go through the global at the moment they run. *)

\* `global _context_data; _context_data = context_data or {}` (input not blocked)
AtribuirGlobal(c) ==
    /\ chamadas[c].passo = "fora"
    /\ _context_data' = c
    /\ chamadas' = [chamadas EXCEPT ![c].passo = "atribuido"]
    /\ UNCHANGED context_data

\* `_context_data['last_agent_used'] = 'triage_agent'`, through the global
IniciarAgente(c) ==
    /\ chamadas[c].passo = "atribuido"
    /\ context_data' = [context_data EXCEPT ![_context_data].last_agent_used = "triage_agent"]
    /\ chamadas' = [chamadas EXCEPT ![c].passo = "runner"]
    /\ UNCHANGED _context_data

\* inside Runner.run_sync a function tool runs: it reads base_usuarios and
\* historico from the dict the global refers to and records its tag there
FerramentaDoTurno(c) ==
    /\ chamadas[c].passo = "runner"
    /\ chamadas[c].ferramenta = ""
    /\ \E t \in RunnerTools :
         /\ context_data' = [context_data EXCEPT ![_context_data].last_agent_used = t]
         /\ chamadas' = [chamadas EXCEPT ![c].ferramenta = t, ![c].leu = _context_data]
    /\ UNCHANGED _context_data

\* `agent_used = _context_data.get('last_agent_used', 'triage_agent')` and return
LerAgente(c) ==
    /\ chamadas[c].passo = "runner"
    /\ chamadas' = [chamadas EXCEPT ![c].passo = "retornou",
                                    ![c].agent_used = context_data[_context_data].last_agent_used]
    /\ UNCHANGED <<context_data, _context_data>>

foraDasChamadas == <<turnVars, input_guardrails, last_agent_used, historico, contexto,
                     gerenciadorVars, output_guardrails, arquivo, sessoes, simulacao,
                     bancoVars, analise_risco>>

InitConcorrente ==
    /\ Init
    /\ path = "agents"

NextConcorrente ==
    \/ \E c \in Clientes : AtribuirGlobal(c) /\ UNCHANGED foraDasChamadas
    \/ \E c \in Clientes : IniciarAgente(c) /\ UNCHANGED foraDasChamadas
    \/ \E c \in Clientes : FerramentaDoTurno(c) /\ UNCHANGED foraDasChamadas
    \/ \E c \in Clientes : LerAgente(c) /\ UNCHANGED foraDasChamadas

SpecConcorrente == InitConcorrente /\ [][NextConcorrente]_vars

\* the tag of the agent that served the call of customer c
AgenteDaChamada(c) ==
    IF chamadas[c].ferramenta = "" THEN "triage_agent" ELSE chamadas[c].ferramenta

\* C28: calls for different customers that run at the same time do not affect
\* one another: the tag a call returns is the tag of the agent that served that
\* call, and the records and history its tool read are those of its own customer
C28_TurnosIndependentes ==
    \A c \in Clientes :
        /\ chamadas[c].ferramenta # "" => chamadas[c].leu = c
        /\ chamadas[c].passo = "retornou" => chamadas[c].agent_used = AgenteDaChamada(c)

-----------------------------------------------------------------------------
(* src/agents_openai.py: emprestimo_tool, the function tool of the loan
   specialist, with src/agentes/emprestimo_agent.py. The arguments are the ones
   the model chose; the tool hands them to EmprestimoAgent.processar as they are. *)

CpfsPedidos == {"111", "222", "999", " "}

ValoresPedidos == {50, 100, 200, 500, 501, 800, 1000, 1200}

ParcelasPedidas == {0, 1, 3, 6, 7}

emprestimo_tool(cpf, valor, qtd_parcelas) ==
    simulacao' = [passo |-> "processado", cpf |-> cpf, valor |-> valor,
                  qtd_parcelas |-> qtd_parcelas,
                  resultado |-> EmprestimoAgent_processar(Str(cpf), Num(valor),
                                                          Num(qtd_parcelas))]

foraDaSimulacao == <<turnVars, input_guardrails, last_agent_used, historico, contexto,
                     gerenciadorVars, output_guardrails, arquivo, sessoes,
                     concorrenteVars, bancoVars, analise_risco>>

NextEmprestimo ==
    \E cpf \in CpfsPedidos, valor \in ValoresPedidos, qtd_parcelas \in ParcelasPedidas :
        emprestimo_tool(cpf, valor, qtd_parcelas) /\ UNCHANGED foraDaSimulacao

SpecEmprestimo == InitConcorrente /\ [][NextEmprestimo]_vars

Processado == simulacao.passo = "processado"

Aprovado == simulacao.resultado[1] = "return" /\ simulacao.resultado[2].aprovado

Recusado == simulacao.resultado[1] = "return" /\ ~simulacao.resultado[2].aprovado

Conhecido == simulacao.cpf \in DOMAIN usuarios_db

RestritoAcimaDoTeto ==
    Conhecido /\ usuarios_db[simulacao.cpf].nome_sujo /\ simulacao.valor > 500

\* installment times count minus the amount, in cents
DiferencaCentavos ==
    simulacao.resultado[2].valor_simulado[1].valor_parcela * simulacao.qtd_parcelas
        - 100 * simulacao.valor

\* C29 as stated: the loan handler approves exactly when the identifier is
\* known and it is not the case that the customer is restricted and the amount
\* exceeds 500; on approval the installment times the installment count equals
\* the requested amount; a restricted customer asking for more than 500 is
\* refused with the reason that names the 500 ceiling.
C29_ParcelasSomamOValor ==
    Processado =>
        /\ Aprovado <=> (Conhecido /\ ~RestritoAcimaDoTeto)
        /\ Aprovado => DiferencaCentavos = 0
        /\ RestritoAcimaDoTeto =>
              Recusado /\ simulacao.resultado[2].mensagem = MENSAGEM_RECUSA_TETO

\* C29, amended: for a positive installment count the handler approves exactly
\* when the identifier is known and it is not the case that the customer is
\* restricted and the amount exceeds 500; on approval the installment is the
\* quotient rounded to the cent, so installment times count is within half a
\* cent per installment of the amount and equals it when the quotient is a
\* whole number of cents; a restricted customer asking for more than 500 is
\* refused with the reason that names the 500 ceiling; with a count of 0 a
\* request that would be approved raises instead.
C29_RegraDoEmprestimo ==
    Processado =>
        /\ simulacao.qtd_parcelas > 0 => (Aprovado <=> (Conhecido /\ ~RestritoAcimaDoTeto))
        /\ Aprovado =>
              /\ 2 * DiferencaCentavos <= simulacao.qtd_parcelas
              /\ -2 * DiferencaCentavos <= simulacao.qtd_parcelas
              /\ (100 * simulacao.valor) % simulacao.qtd_parcelas = 0 => DiferencaCentavos = 0
        /\ RestritoAcimaDoTeto =>
              Recusado /\ simulacao.resultado[2].mensagem = MENSAGEM_RECUSA_TETO
        /\ (simulacao.qtd_parcelas = 0 /\ Conhecido /\ ~RestritoAcimaDoTeto)
              => simulacao.resultado[1] = "raise"

\* an approved request whose installments do not add up to the amount:
\* 100 over 3 gives 33.33
C29_Witness ==
    /\ Processado
    /\ Aprovado
    /\ simulacao.valor = 100
    /\ simulacao.qtd_parcelas = 3
    /\ simulacao.resultado[2].valor_simulado[1].valor_parcela = 3333

-----------------------------------------------------------------------------
(* Wording of the moderation refusal *)

\* the first tripped category in the order _gerar_mensagem_bloqueio looks them
\* up: categorias_graves first, then the order the service lists them
PrimeiraPorPrioridade(ativas) ==
    LET graves == SelectSeq(categorias_graves, LAMBDA c : c \in Range(ativas))
    IN  IF graves # <<>> THEN graves[1] ELSE ativas[1]

\* the moderation validator blocked the input of the turn on a flagged answer
BloqueiosDaModeracao ==
    {i \in 1..Len(invocados) :
        /\ invocados[i].name = "openai_moderation"
        /\ ~invocados[i].passed
        /\ invocados[i].categorias # <<>>}

\* C30 as stated: when the moderation classifier flags an input, the refusal
\* wording is the one of the first tripped category in the fixed priority
\* order, and the generic wording is used only when none of the categories
\* that have their own wording tripped.
C30_GenericaSoSemRedacaoPropria ==
    \A i \in BloqueiosDaModeracao :
        /\ invocados[i].message =
              mensagem_bloqueio(descricao_categoria(PrimeiraPorPrioridade(invocados[i].categorias)))
        /\ invocados[i].message = mensagem_bloqueio(DESCRICAO_PADRAO)
              => Range(invocados[i].categorias) \cap COM_REDACAO = {}

\* C31 as stated: on the run_agent_loop path EmprestimoAgent.processar is
\* reached only with a positive amount, a positive installment count and a
\* non-blank identifier, so it never divides by an installment count of 0.
C31_HandlerSoComArgumentosValidos ==
    Processado =>
        /\ simulacao.valor > 0
        /\ simulacao.qtd_parcelas > 0
        /\ ~str_strip_vazio(Str(simulacao.cpf))
        /\ simulacao.resultado[1] # "raise"

-----------------------------------------------------------------------------
(* The per-agent selection against the procedure it implements *)

\* the limits the two procedures are compared for
LimitesComparados == {1, 2, LIMITE_POR_AGENTE}

\* the positions of the assistant messages of h tagged a, in history order
PosicoesEmOrdem(h, a) ==
    SelectSeq([i \in 1..Len(h) |-> i],
              LAMBDA i : get(h[i], "role") = "assistant" /\ get(h[i], "agent") = a)

\* the procedure as specified: the last k assistant messages tagged a, each
\* paired with the nearest user message before it, those without one dropped
janela_especificada(h, a, k) ==
    LET todas == PosicoesEmOrdem(h, a)
        ult == IF k >= Len(todas) THEN todas
               ELSE SubSeq(todas, Len(todas) - k + 1, Len(todas))
        com == SelectSeq(ult, LAMBDA i : TemPerguntaAntes(h, i))
    IN  Materialize([n \in 1..(2 * Len(com)) |->
            IF n % 2 = 1
            THEN h[Max({j \in 1..(com[(n + 1) \div 2] - 1) : get(h[j], "role") = "user"})]
            ELSE h[com[n \div 2]]])

\* C32: for every history a context was built for, agent tag and K > 0, _obter_ultimas_interacoes_agente
\* (pair every answer of the agent with its nearest preceding user message,
\* keep the last K pairs) returns the same pairs as the specified procedure
\* (take the last K answers of the agent, pair each, drop those without a
\* preceding user message).
C32_SelecaoComoEspecificada ==
    Aplicado => \A a \in agentes_encontrados(historico) : \A k \in LimitesComparados :
        _obter_ultimas_interacoes_agente(historico, a, k) = janela_especificada(historico, a, k)

\* C32 witness: for some tag the last K answers include one without a user
\* message before it and one with, and the tag has more than K answers
C32_Witness ==
    Aplicado /\ \E a \in agentes_encontrados(historico) : \E k \in LimitesComparados :
        /\ Cardinality(PosicoesDe(historico, a)) > k
        /\ \E i \in UltimasPosicoes(historico, a, k) : ~TemPerguntaAntes(historico, i)
        /\ \E i \in UltimasPosicoes(historico, a, k) : TemPerguntaAntes(historico, i)

-----------------------------------------------------------------------------
(* The limit of the HistoricoManager *)

\* the limit is positive, a call with a value <= 0 raised, and a call that
\* did not raise set the limit to its argument
LimitePositivo ==
    /\ limite_mensagens_por_agente > 0
    /\ ultima_configuracao.novo_limite <= 0 <=> ultima_configuracao.erro = "ValueError"
    /\ ultima_configuracao.erro = "" =>
          limite_mensagens_por_agente = ultima_configuracao.novo_limite

\* a step that ends in the error leaves the limit as it was
ErroMantemLimite ==
    ultima_configuracao'.erro = "ValueError" =>
        limite_mensagens_por_agente' = limite_mensagens_por_agente

-----------------------------------------------------------------------------
(* Termination of a turn *)

\* a step inside a turn in progress: an external call returns or raises and
\* the code that follows it runs
PassoDoTurno ==
    /\ \/ ValidarProximo
       \/ RetornarBloqueio
       \/ PrepararContexto
       \/ ChamarRunner
       \/ RunnerTool
       \/ RunnerRetorna
       \/ PrimeiraResposta
       \/ ProcessarToolCall
       \/ RespostaFinal
    /\ UNCHANGED foraDoTurno

\* Spec under the proviso that every external call returns or raises: a turn
\* in progress is not left waiting forever
SpecJusto == Init /\ [][Next]_vars /\ WF_vars(PassoDoTurno)

EmAndamento == pc \in {"guardrails", "gate", "completion1", "tools", "completion2", "runner"}

Terminou == pc = "returned" /\ Len(retorno) = 2

\* the guardrail loop ran at most once per registered validator and the tool
\* loop at most once per requested invocation, exactly once per invocation
\* when the second completion call is placed
LoopsLimitados ==
    /\ Len(invocados) <= Len(input_guardrails)
    /\ Cardinality(PosicoesOp({"validate"})) <= Len(input_guardrails)
    /\ Len(agentes_usados) <= Len(tool_calls)
    /\ pc = "completion2" => Len(agentes_usados) = Len(tool_calls)
    /\ Cardinality(ChamadasDoOrquestrador) <= 2

\* after the second completion call the turn only returns
SemReentrada == pc = "completion2" => pc' \in {"completion2", "returned"}

\* C34: provided each external call returns or raises, every turn terminates
\* with a (text, agent) result: the guardrail loop runs once per registered
\* validator and the tool loop once per requested invocation, with no retry
\* and no re-entry into the loop after the second completion call.
C34_TurnoTermina ==
    /\ [](LoopsLimitados)
    /\ [][SemReentrada]_vars
    /\ EmAndamento ~> Terminou

\* C34 witness: a turn went through every validator, a tool loop of two
\* invocations and the second completion call, and returned
C34_Witness ==
    /\ Terminou
    /\ path = "chat"
    /\ Len(tool_calls) = 2
    /\ Len(agentes_usados) = 2
    /\ Posicoes("resposta_final", "ok") # {}

-----------------------------------------------------------------------------
(* Size of the bounded context *)

\* the messages of a list that are not system messages
NaoSystem(ctx) == SelectSeq(ctx, LAMBDA m : get(m, "role") # "system")

\* C35: the number of non-system messages _aplicar_limitacao_historico returns
\* is at most 2 * K * (number of distinct agent tags on assistant messages of
\* the history), whatever the length of the history, and every returned
\* message is a message of the history.
C35_ContextoLimitado ==
    Aplicado =>
        /\ Len(NaoSystem(contexto[1]))
              <= 2 * LIMITE_POR_AGENTE * Cardinality(agentes_encontrados(historico))
        /\ \A c \in 1..Len(contexto[1]) :
              \E i \in 1..Len(historico) : historico[i] = contexto[1][c]

\* C35 witness: the bound is met and the history is longer than the context
C35_Witness ==
    /\ Aplicado
    /\ agentes_encontrados(historico) # {}
    /\ Len(NaoSystem(contexto[1]))
          = 2 * LIMITE_POR_AGENTE * Cardinality(agentes_encontrados(historico))
    /\ Len(NaoSystem(historico)) > Len(NaoSystem(contexto[1]))

-----------------------------------------------------------------------------
(* Pairing in the context of the HistoricoManager *)

\* the pairs of a context of the HistoricoManager: what lies between the
\* system messages and the current question
ParesDoContexto(lista) ==
    SubSeq(lista, Len(MensagensSystem(lista)) + 1, Len(lista) - 1)

\* the retained answers of tag a, each with the user message right before
\* that very position of the history
ParesDaPosicao(h, a, k) ==
    LET pos == ultimos(PosicoesEmOrdem(h, a), k)
        com == SelectSeq(pos, LAMBDA i : i > 1 /\ get(h[i - 1], "role") = "user")
    IN  Materialize([n \in 1..(2 * Len(com)) |->
            IF n % 2 = 1 THEN h[com[(n + 1) \div 2] - 1] ELSE h[com[n \div 2]]])

\* C36 as stated: in the context built by obter_contexto_relevante_para_agente
\* each retained assistant message of the agent is paired with the user
\* message that precedes that very message in the history, also when the
\* history holds another assistant message of the same agent with equal
\* content at a different position.
C36_PerguntaDaPropriaMensagem ==
    Relevante =>
        ParesDoContexto(contexto_relevante[3])
            = ParesDaPosicao(historico, contexto_relevante[1], limite_mensagens_por_agente)

-----------------------------------------------------------------------------
(* The agent tag run_agent_loop returns *)

\* the tools that ran inside the runner in the turn, in order
ToolsDoRunner == SelectSeq(calls, LAMBDA e : e.op = "handler")

\* the tag of the last tool that ran in the turn, 'triage_agent' when none ran
TagDoTurno ==
    IF ToolsDoRunner = <<>> THEN "triage_agent" ELSE ToolsDoRunner[Len(ToolsDoRunner)].arg

RetornouPeloRunner == pc \in {"returned", "persisted"} /\ path = "agents"

TagPorDesfecho ==
    RetornouPeloRunner =>
        /\ Posicoes("runner_retorna", "ok") # {} => retorno[2] = TagDoTurno
        /\ Posicoes("runner_retorna", "raise") # {} => retorno[2] = "assistant_erro"
        /\ PosicoesOp({"runner"}) = {} => retorno[2] = "guardrail"

\* the step that starts the runner resets the tag
TagReiniciada == (pc = "gate" /\ pc' = "runner") => last_agent_used' = "triage_agent"

-----------------------------------------------------------------------------
(* src/utils/file_utils.py with src/db.py: the history of one customer kept
   in the database collection and in the local file. Whether the server
   answers is the environment's choice at every call. *)

\* the lists handed to salvar_historico
HistoricosSalvos ==
    { <<SystemMsg(MENSAGEM_CPF)>>,
      <<SystemMsg(MENSAGEM_CPF), UserMsg("oi"),
        AssistantMsg("Emprestimo aprovado.", "emprestimo_agent")>>,
      <<SystemMsg(MENSAGEM_CPF), UserMsg("oi"),
        AssistantMsg("Emprestimo aprovado.", "emprestimo_agent"),
        UserMsg("oi"), AssistantMsg("Nivel de risco: BAIXO.", "analise_risco_agent")>> }

\* db.verificar_conexao as <<result, flag of db.py afterwards>>: a failed ping
\* clears the flag, and nothing sets it again in the process
verificar_conexao(flag, ping) ==
    IF ~flag THEN <<FALSE, FALSE>>
    ELSE IF ping THEN <<TRUE, TRUE>> ELSE <<FALSE, FALSE>>

\* `conexao_disponivel and verificar_conexao()` in file_utils: the copy made
\* at import, then the live check (not evaluated when the copy is False)
usa_banco(ping) ==
    conexao_disponivel.file_utils /\ verificar_conexao(conexao_disponivel.db, ping)[1]

\* the flags after that condition was evaluated
flags_depois(ping) ==
    IF conexao_disponivel.file_utils
    THEN [conexao_disponivel EXCEPT !.db = verificar_conexao(conexao_disponivel.db, ping)[2]]
    ELSE conexao_disponivel

\* salvar_historico(cpf, h, history_dir): replace_one on the collection and
\* return, or, without the database or when the operation raises, the file
SalvarHistoricoDoCliente ==
    \E h \in HistoricosSalvos, ping \in BOOLEAN, operacao_ok \in BOOLEAN :
        /\ conexao_disponivel' = flags_depois(ping)
        /\ IF usa_banco(ping) /\ operacao_ok
           THEN documento' = <<h>> /\ UNCHANGED arquivo
           ELSE arquivo' = salvar_historico(arquivo, h) /\ UNCHANGED documento
        /\ chamada_historico' = [op |-> "salvar", salvo |-> <<h>>, ret |-> <<>>]

\* carregar_historico(cpf, history_dir): the document of the collection when
\* the database answers and holds one, otherwise the file, [] without a file
CarregarHistoricoDoCliente ==
    \E ping \in BOOLEAN, operacao_ok \in BOOLEAN :
        /\ conexao_disponivel' = flags_depois(ping)
        /\ chamada_historico' =
              [chamada_historico EXCEPT
                  !.op = "carregar",
                  !.ret = IF usa_banco(ping) /\ operacao_ok /\ documento # <<>>
                          THEN documento
                          ELSE <<carregar_historico(arquivo)>>]
        /\ UNCHANGED <<documento, arquivo>>

\* a new run of main: db.py is imported again, with the server up or down
NovoProcesso ==
    \E no_ar \in BOOLEAN :
        /\ conexao_disponivel' = [db |-> no_ar, file_utils |-> no_ar]
        /\ chamada_historico' = [chamada_historico EXCEPT !.op = "nenhuma", !.ret = <<>>]
        /\ UNCHANGED <<documento, arquivo>>

foraDoArmazenamento == <<turnVars, input_guardrails, last_agent_used, historico, contexto,
                         gerenciadorVars, output_guardrails, sessoes, concorrenteVars,
                         simulacao, analise_risco>>

InitArmazenamento ==
    /\ TurnIdle
    /\ path = "agents"
    /\ input_guardrails = <<"openai_moderation", "food_content">>
    /\ last_agent_used = ""
    /\ historico = <<>>
    /\ contexto = <<>>
    /\ ProcessoSemBanco
    /\ \E no_ar \in BOOLEAN : BancoNoImport(no_ar)

NextArmazenamento ==
    \/ SalvarHistoricoDoCliente /\ UNCHANGED foraDoArmazenamento
    \/ CarregarHistoricoDoCliente /\ UNCHANGED foraDoArmazenamento
    \/ NovoProcesso /\ UNCHANGED foraDoArmazenamento

SpecArmazenamento == InitArmazenamento /\ [][NextArmazenamento]_vars

\* C38 as stated: for one customer identifier, with the database becoming
\* available or unavailable arbitrarily between calls, carregar_historico
\* returns the sequence passed to the most recent salvar_historico.
C38_CarregaOUltimoSalvo ==
    (chamada_historico.op = "carregar" /\ chamada_historico.salvo # <<>>)
        => chamada_historico.ret = chamada_historico.salvo

\* ---------------------------------------------------------------------------
\* AnaliseRiscoAgent.processar with the chat history it is given
\* ---------------------------------------------------------------------------

\* the longest chat history handed to the analysis
MaxHistoricoRisco == 3

FATOR_RESTRICAO == "Cliente com restricoes crediticias (nome sujo)"

FATOR_SEM_RESTRICAO == "Cliente sem restricoes no CPF"

FATOR_MULTIPLAS == "Multiplas solicitacoes de emprestimo na conversa"

FATOR_URGENCIA == "Demonstra urgencia excessiva nas solicitacoes"

FATOR_OUTROS_SERVICOS ==
    "Cliente demonstra interesse em outros servicos alem de emprestimos"

\* what the messages of the analysed history say
ConteudosDaAnalise ==
    {"quero um emprestimo", "URGENTE: preciso de dinheiro", "e urgente", "qual o horario"}

\* str.lower on those contents
str_lower(content) ==
    IF content = "URGENTE: preciso de dinheiro" THEN "urgente: preciso de dinheiro"
    ELSE content

\* the lowered contents that hold one of "emprestimo", "dinheiro", "valor",
\* "financiamento"
pede_emprestimo(content) ==
    str_lower(content) \in {"quero um emprestimo", "urgente: preciso de dinheiro"}

\* the lowered contents that hold one of "urgente", "rapido", "preciso agora",
\* "emergencia"
menciona_urgencia(content) ==
    str_lower(content) \in {"urgente: preciso de dinheiro", "e urgente"}

MensagensDaAnalise ==
    { [role |-> r, content |-> c] : r \in {"user", "assistant"}, c \in ConteudosDaAnalise }

\* the argument historico_chat: <<>> for None, <<h>> for the list h
HistoricosDaAnalise ==
    {<<>>} \cup { <<h>> : h \in UNION { [1..n -> MensagensDaAnalise] :
                                         n \in 0..MaxHistoricoRisco } }

_analisar_perfil_basico(nome_sujo) ==
    LET score_risco == IF nome_sujo THEN 40 ELSE -10
        nivel_risco == IF score_risco >= 50 THEN "ALTO"
                       ELSE IF score_risco >= 20 THEN "MEDIO" ELSE "BAIXO"
    IN [nivel_risco |-> nivel_risco,
        score_risco |-> IF score_risco < 0 THEN 0
                        ELSE IF score_risco > 100 THEN 100 ELSE score_risco,
        fatores_risco |-> IF nome_sujo THEN <<FATOR_RESTRICAO>> ELSE <<>>,
        fatores_positivos |-> IF nome_sujo THEN <<>> ELSE <<FATOR_SEM_RESTRICAO>>]

_analisar_historico_chat(h) ==
    LET usuario(i) == h[i].role = "user"
        total_mensagens == Cardinality({ i \in 1..Len(h) : usuario(i) })
        emprestimos_solicitados ==
            Cardinality({ i \in 1..Len(h) : usuario(i) /\ pede_emprestimo(h[i].content) })
        mencoes_urgencia ==
            Cardinality({ i \in 1..Len(h) : usuario(i) /\ menciona_urgencia(h[i].content) })
        muitas == emprestimos_solicitados > 2
        urgente == mencoes_urgencia > 1
        outros == total_mensagens > 0 /\ emprestimos_solicitados = 0
    IN [fatores_risco |->
            (IF muitas THEN <<FATOR_MULTIPLAS>> ELSE <<>>)
                \o (IF urgente THEN <<FATOR_URGENCIA>> ELSE <<>>),
        fatores_positivos |-> IF outros THEN <<FATOR_OUTROS_SERVICOS>> ELSE <<>>,
        score_risco_adicional |->
            (IF muitas THEN 15 ELSE 0) + (IF urgente THEN 10 ELSE 0)
                - (IF outros THEN 5 ELSE 0)]

\* dict.update: every key of the argument replaces or adds its entry
dict_update(d, u) ==
    [k \in DOMAIN d \cup DOMAIN u |-> IF k \in DOMAIN u THEN u[k] ELSE d[k]]

_gerar_recomendacoes(perfil_risco, nome_sujo) ==
    (IF nome_sujo
     THEN <<"Considere quitar suas pendencias", "Emprestimos limitados a R$ 500,00",
            "Explore produtos de recuperacao de credito">>
     ELSE <<>>)
    \o (IF perfil_risco.nivel_risco = "ALTO"
        THEN <<"Recomendamos cautela", "Busque orientacao financeira",
               "Considere renegociar dividas">>
        ELSE IF perfil_risco.nivel_risco = "MEDIO"
        THEN <<"Mantenha suas contas em dia", "Considere parcelas menores",
               "Avalie sua capacidade de pagamento">>
        ELSE <<"Voce tem um bom perfil crediticio", "Pode ser elegivel a melhores condicoes",
               "Continue mantendo suas contas em dia">>)

\* the parts of the text, in the order they are written
_formatar_mensagem_analise(nome, perfil_risco, recomendacoes) ==
    [titulo |-> nome, nivel_risco |-> perfil_risco.nivel_risco,
     score |-> perfil_risco.score_risco,
     pontos_positivos |-> perfil_risco.fatores_positivos,
     fatores_de_atencao |-> perfil_risco.fatores_risco,
     recomendacoes |-> recomendacoes]

\* a list or None is true when it is a list that is not empty
historico_verdadeiro(historico_chat) ==
    historico_chat # <<>> /\ Len(historico_chat[1]) > 0

processar_com_historico(cpf, historico_chat) ==
    IF cpf \notin DOMAIN usuarios_db
    THEN [erro |-> TRUE, analise |-> <<>>]
    ELSE LET nome_sujo == usuarios_db[cpf].nome_sujo
             basico == _analisar_perfil_basico(nome_sujo)
             perfil_risco ==
                 IF historico_verdadeiro(historico_chat)
                 THEN dict_update(basico, _analisar_historico_chat(historico_chat[1]))
                 ELSE basico
             recomendacoes == _gerar_recomendacoes(perfil_risco, nome_sujo)
         IN [erro |-> FALSE,
             analise |-> <<[nivel_risco |-> perfil_risco.nivel_risco,
                            score_risco |-> perfil_risco.score_risco,
                            fatores_risco |-> perfil_risco.fatores_risco,
                            fatores_positivos |-> perfil_risco.fatores_positivos,
                            recomendacoes |-> recomendacoes,
                            mensagem |-> _formatar_mensagem_analise(
                                usuarios_db[cpf].nome, perfil_risco, recomendacoes)]>>]

foraDaAnalise == <<turnVars, input_guardrails, last_agent_used, historico, contexto,
                   gerenciadorVars, output_guardrails, arquivo, sessoes,
                   concorrenteVars, simulacao, bancoVars>>

\* the completion asks for the analysis of a customer: the arguments of the
\* call, with the history the caller holds (None when incluir_historico is false)
PedirAnalise(cpf, historico_chat) ==
    /\ analise_risco.passo = "fora"
    /\ analise_risco' = [passo |-> "pedido", cpf |-> cpf,
                         historico_chat |-> historico_chat, resultado |-> <<>>]
    /\ UNCHANGED foraDaAnalise

\* analise_risco_tool and _processar_analise_risco: the analysis that was asked
_processar_analise_risco ==
    /\ analise_risco.passo = "pedido"
    /\ analise_risco' =
           [analise_risco EXCEPT
               !.passo = "analisado",
               !.resultado = <<processar_com_historico(analise_risco.cpf,
                                                       analise_risco.historico_chat)>>]
    /\ UNCHANGED foraDaAnalise

NextAnalise ==
    \/ \E cpf \in {"111", "222", "999"}, historico_chat \in HistoricosDaAnalise :
           PedirAnalise(cpf, historico_chat)
    \/ _processar_analise_risco

SpecAnalise == InitConcorrente /\ [][NextAnalise]_vars

\* an analysis of a customer of the base was returned
Analisado ==
    /\ analise_risco.passo = "analisado"
    /\ analise_risco.cpf \in DOMAIN usuarios_db

EstaEm(x, lista) == \E i \in 1..Len(lista) : lista[i] = x

\* C39: the analysis of a known restricted customer lists the credit
\* restriction among its risk factors, and that of a known unrestricted customer
\* lists the absence of restrictions among its positive factors, with or
\* without a chat history
C39_FatorCadastralSempreListado ==
    Analisado =>
        LET analise == analise_risco.resultado[1].analise[1]
        IN IF usuarios_db[analise_risco.cpf].nome_sujo
           THEN EstaEm(FATOR_RESTRICAO, analise.fatores_risco)
           ELSE EstaEm(FATOR_SEM_RESTRICAO, analise.fatores_positivos)
====
